---- MODULE Spec2Model ----
(***************************************************************************)
(* Verification model of the IMU gimbal tools (Aronnaxx/imu_gimbal).       *)
(*                                                                         *)
(* The repository is a set of stand-alone scripts.  Each part of this      *)
(* module models one of them (or one class they share) as its own state    *)
(* machine over its own variables:                                         *)
(*                                                                         *)
(*   SpecUnwrap  the AngleUnwrapper class on its own                       *)
(*   SpecPoll    the single-threaded Tk pollers (update_plot callbacks)    *)
(*   SpecComb    combined_imu_dynamixel.py: reader thread + GUI thread     *)
(*   SpecDxl     the Dynamixel scripts' register transactions and dxl_lock *)
(*   SpecStart   startup stages and exit status of the scripts             *)
(*   SpecServo   the servo control panels (sliders, FOLLOW, RANDOM steps)  *)
(*   SpecCli     imu_trace_cli.py: the terminal controller's main loop     *)
(*   SpecService dynamixel-cli.py --service: initialization and signals    *)
(*   SpecLife    u2d2-dynamixel.py: GUI, status and random-movement threads*)
(*   SpecMode    operating-mode changes of one servo                       *)
(*   SpecCtl     dynamixel-cli.py and spin_mode.py from setup to exit      *)
(*                                                                         *)
(* Angles are whole degrees (quarter degrees in SpecServo).  An optional   *)
(* value (Python None or a value) is a sequence of length 0 or 1.          *)
(***************************************************************************)
EXTENDS Integers, Sequences, FiniteSets, TLC

VARIABLES
    \* ---- AngleUnwrapper on its own (SpecUnwrap)
    previous_angle,   \* self.previous_angle: <<>> is None
    offset,           \* self.offset
    u_ret,            \* value returned by the latest unwrap call, <<>> before any
    u_prev_ret,       \* value returned by the call before that, <<>> if none
    u_arg,            \* argument of the latest unwrap call
    u_before,         \* [prev, off]: previous_angle and offset when that call began
    u_calls,          \* number of unwrap calls made so far
    \* ---- the visualizer programs (SpecPoll, SpecComb)
    prog,             \* which script runs
    rx,               \* the serial input buffer: pending lines, oldest first
    sent,             \* number of lines the device has sent so far
    p_pc,             \* the polling callback: "idle" (scheduled), "loop", "dead"
    x_data, y_data, z_data,                   \* raw trace
    x_filtered, y_filtered, z_filtered,       \* filtered trace
    ghost_x_data, ghost_y_data, ghost_z_data, \* second-IMU (ghost) trace
    yaw_unwrapper,    \* the AngleUnwrapper instance: [prev, off]
    kalman_filter,    \* the KalmanFilter3D instance the program refers to
    continuous_yaw,   \* continuous_yaw_var / self.continuous_yaw
    zero_sent,        \* number of ZERO commands written to the device
    p_user,           \* number of user actions taken so far
    p_last,           \* the handler step that ran last
    p_read,           \* lines read by the current (or latest) update_plot call
    p_dropped,        \* lines discarded so far by reset_input_buffer()
    \* ---- combined_imu_dynamixel.py: the two threads (SpecComb)
    r_pc,             \* reader thread (update_imu): "wait", "parsed", "unwrapped",
                      \*   "predicted", "append", "trim"
    r_i,              \* which of the six appends comes next (1..6), 0 otherwise
    r_line,           \* the sample the reader is processing, <<>> if none
    r_yaw,            \* local yaw, after unwrapping
    r_filtered,       \* local filtered, <<>> before update() returned
    g_pc,             \* GUI thread: "idle", "zero_replace", "zero_unwrap", "reset"
    g_i,              \* which step of reset_plot comes next (1..7), 0 otherwise
    g_zero,           \* whether the running reset_plot was called by zero_imu
    \* ---- the Dynamixel scripts (SpecDxl)
    d_prog,           \* which script runs
    dxl_lock,         \* threading.Lock(): 0 when free, else the thread holding it
    d_pc,             \* per thread: "idle", "want", "ready", "tx", "done"
    d_op,             \* per thread: the helper it is in, "" when idle
    d_left,           \* per thread: transactions still to make in that helper
    d_calls,          \* helper calls made so far
    \* ---- program startup and exit status (SpecStart)
    s_prog,           \* which script runs
    s_stage,          \* index of the next startup stage; past the last: running
    s_exit,           \* exit status of the process, <<>> while it runs
    s_fail,           \* the stage or event that ended the process, "" if none
    s_errs,           \* Dynamixel communication errors logged so far
    \* ---- the servo control panels (SpecServo); angles in quarter degrees
    sv_prog,          \* which script runs
    mode_var,         \* the mode radio buttons
    control_mode,     \* the mode send_control_command last saw
    is_movement_active,
    servo_var,        \* servo1_var: what the slider widget holds
    servo_pos,        \* servo1_pos
    speed_var,        \* the speed slider, in half units
    movement_speed,   \* movement_speed, in half units
    targets,          \* periodic_command_update.targets[0], <<>> before the first
    second_imu_data,  \* [connected, yaw]
    pushed,           \* the angle pushed to hardware last, <<>> if none
    sv_ops,           \* callbacks run so far
    \* ---- imu_trace_cli.py: the terminal controller (SpecCli)
    c_pc,             \* "loop" while the main loop runs, "ended" after finally
    c_stdin,          \* lines the user typed that were not read yet
    c_rx,             \* serial lines waiting (ser.in_waiting > 0 when not empty)
    c_mode,           \* args.mode
    c_written,        \* what was written to the serial port, oldest first
    c_exc,            \* the exception that ended the loop, "" if none
    c_before,         \* [mode, written, cmd] when line 83 was evaluated last
    c_typed,          \* lines typed and serial lines sent so far
    \* ---- dynamixel-cli.py --service (SpecService)
    v_pc,             \* main thread: "open", "baud", "init", "sleep", "exit"
    v_sid,            \* index of the servo being initialized
    v_op,             \* index of the register write the initialization is at
    v_in,             \* main thread is inside a "with dxl_lock:" block
    v_lock,           \* dxl_lock: "free", or the frame holding it
    v_port,           \* portHandler.is_open
    v_signal,         \* a SIGTERM or SIGINT was delivered
    h_pc,             \* cleanup_and_exit: "off", "servos", "close", "done"
    h_sid,            \* index of the servo the handler is stopping
    h_op,             \* index of the handler's register write for that servo
    h_in,             \* handler is inside a "with dxl_lock:" block
    v_cleanup,        \* per servo, the register writes made by the handler
    v_exit,           \* exit status of the process, <<>> while it runs
    \* ---- u2d2-dynamixel.py: the GUI and its threads (SpecLife)
    l_enable,         \* ENABLE_RANDOM_MOVEMENT of the configuration
    l_main,           \* GUI thread: "gui", "closing", "closed", "gone"
    l_csid,           \* on_closing: index of the servo it is at
    l_cop,            \* on_closing: index of its register write for that servo
    stop_event,       \* stop_event.is_set()
    update_status_active,
    random_movement_enabled,   \* the checkbox variable
    random_thread,    \* app.random_thread: <<>> is None, else <<thread>>
    l_port,           \* portHandler.is_open
    l_rt,             \* per random-movement thread: [pc, sid, op]
    l_st,             \* the status thread: [pc, sid, k]
    l_reg,            \* per servo: [torque, vel] as the servo holds them
    l_acts,           \* per thread and servo: its last two register writes
    l_late,           \* who used the port after it was closed, "" if nobody
    l_toggles,        \* checkbox clicks so far
    l_started,        \* random-movement threads started so far
    \* ---- operating-mode changes of one servo (SpecMode)
    m_prog,           \* which script runs
    m_lock,           \* dxl_lock: 0 when free, else the thread holding it
    m_pc,             \* per thread: "idle", "want", "in"
    m_op,             \* per thread: the helper it is in, "" when idle
    m_stage,          \* per thread: which write of the helper comes next
    m_torque,         \* the servo's Torque Enable register
    m_prev,           \* the latest register write to the servo, <<>> if none
    m_modew,          \* the latest operating-mode write, <<>> if none
    m_calls,          \* helper calls made so far
    \* ---- dynamixel-cli.py and spin_mode.py from start to exit (SpecCtl)
    e_prog,           \* "cli", "service" (dynamixel-cli.py) or "spin"
    e_pc,             \* "init", "velocities", "loop", "stopall", "sleep",
                      \*   "cleanup", "handler", "exited"
    e_sid,            \* index of the servo the current loop is at
    e_op,             \* index of the register write for that servo
    e_port,           \* portHandler.is_open
    e_running,        \* spin_mode.py: the flag cleared by shutdown_handler
    e_initlog,        \* per servo: the writes of its initialization, [reg, ok]
    e_last,           \* per servo: the last two register writes issued
    e_how,            \* what made the process leave, "" while it runs
    e_cmds            \* commands typed so far

unwrapVars == <<previous_angle, offset, u_ret, u_prev_ret, u_arg, u_before, u_calls>>

traceVars == <<x_data, y_data, z_data, x_filtered, y_filtered, z_filtered,
               ghost_x_data, ghost_y_data, ghost_z_data>>

filterVars == <<yaw_unwrapper, kalman_filter>>

pollVars == <<prog, rx, sent, p_pc, traceVars, filterVars, continuous_yaw,
              zero_sent, p_user, p_last, p_read, p_dropped>>

combVars == <<r_pc, r_i, r_line, r_yaw, r_filtered, g_pc, g_i, g_zero>>

dxlVars == <<d_prog, dxl_lock, d_pc, d_op, d_left, d_calls>>

startVars == <<s_prog, s_stage, s_exit, s_fail, s_errs>>

servoVars == <<sv_prog, mode_var, control_mode, is_movement_active, servo_var,
               servo_pos, speed_var, movement_speed, targets, second_imu_data,
               pushed, sv_ops>>

cliVars == <<c_pc, c_stdin, c_rx, c_mode, c_written, c_exc, c_before, c_typed>>

serviceVars == <<v_pc, v_sid, v_op, v_in, v_lock, v_port, v_signal, h_pc, h_sid,
                 h_op, h_in, v_cleanup, v_exit>>

lifeVars == <<l_enable, l_main, l_csid, l_cop, stop_event, update_status_active,
              random_movement_enabled, random_thread, l_port, l_rt, l_st, l_reg,
              l_acts, l_late, l_toggles, l_started>>

modeVars == <<m_prog, m_lock, m_pc, m_op, m_stage, m_torque, m_prev, m_modew,
              m_calls>>

ctlVars == <<e_prog, e_pc, e_sid, e_op, e_port, e_running, e_initlog, e_last,
             e_how, e_cmds>>

vars == <<unwrapVars, pollVars, combVars, dxlVars, startVars, servoVars, cliVars,
         serviceVars, lifeVars, modeVars, ctlVars>>

\* What a step of each part leaves alone.
notUnwrap == <<pollVars, combVars, dxlVars, startVars, servoVars, cliVars,
               serviceVars, lifeVars, modeVars, ctlVars>>

notPoll == <<unwrapVars, combVars, dxlVars, startVars, servoVars, cliVars,
             serviceVars, lifeVars, modeVars, ctlVars>>

notComb == <<unwrapVars, dxlVars, startVars, servoVars, cliVars, serviceVars,
             lifeVars, modeVars, ctlVars>>

notDxl == <<unwrapVars, pollVars, combVars, startVars, servoVars, cliVars,
            serviceVars, lifeVars, modeVars, ctlVars>>

notStart == <<unwrapVars, pollVars, combVars, dxlVars, servoVars, cliVars,
              serviceVars, lifeVars, modeVars, ctlVars>>

notServo == <<unwrapVars, pollVars, combVars, dxlVars, startVars, cliVars,
              serviceVars, lifeVars, modeVars, ctlVars>>

notCli == <<unwrapVars, pollVars, combVars, dxlVars, startVars, servoVars,
            serviceVars, lifeVars, modeVars, ctlVars>>

notService == <<unwrapVars, pollVars, combVars, dxlVars, startVars, servoVars, cliVars,
                lifeVars, modeVars, ctlVars>>

notLife == <<unwrapVars, pollVars, combVars, dxlVars, startVars, servoVars, cliVars,
             serviceVars, modeVars, ctlVars>>

notMode == <<unwrapVars, pollVars, combVars, dxlVars, startVars, servoVars, cliVars,
             serviceVars, lifeVars, ctlVars>>

notCtl == <<unwrapVars, pollVars, combVars, dxlVars, startVars, servoVars, cliVars,
            serviceVars, lifeVars, modeVars>>

Abs(x) == IF x < 0 THEN -x ELSE x

Some(x) == <<x>>

None == <<>>

Last(s) == s[Len(s)]

(***************************************************************************)
(* Each specification runs one part; the variables of the other parts stay *)
(* parked at these values.                                                 *)
(***************************************************************************)
ParkUnwrap ==
    /\ previous_angle = None
    /\ offset = 0
    /\ u_ret = None
    /\ u_prev_ret = None
    /\ u_arg = None
    /\ u_before = [prev |-> None, off |-> 0]
    /\ u_calls = 0

\* Module-level state of a visualizer script when its main loop starts: empty
\* traces, a new KalmanFilter3D and AngleUnwrapper, nothing received yet.
InitProgramState ==
    /\ rx = <<>>
    /\ sent = 0
    /\ p_pc = "idle"
    /\ x_data = <<>> /\ y_data = <<>> /\ z_data = <<>>
    /\ x_filtered = <<>> /\ y_filtered = <<>> /\ z_filtered = <<>>
    /\ ghost_x_data = <<>> /\ ghost_y_data = <<>> /\ ghost_z_data = <<>>
    /\ yaw_unwrapper = [prev |-> None, off |-> 0]
    /\ kalman_filter = [id |-> 0, ops |-> <<>>]
    /\ continuous_yaw = TRUE
    /\ zero_sent = 0
    /\ p_user = 0
    /\ p_last = "init"
    /\ p_read = 0
    /\ p_dropped = 0

\* The threads of combined_imu_dynamixel.py when they start: the reader at
\* the top of its loop, the GUI thread in the Tk main loop.
InitThreads ==
    /\ r_pc = "wait"
    /\ r_i = 0
    /\ r_line = None
    /\ r_yaw = 0
    /\ r_filtered = None
    /\ g_pc = "idle"
    /\ g_i = 0
    /\ g_zero = FALSE

ParkPoll == prog = "none" /\ InitProgramState /\ InitThreads

\* Threads a Dynamixel script may run: 1 is the main (GUI or CLI) thread,
\* 2 the status thread, 3 the random-movement thread.
DxlThreads == 1..3

\* dxl_lock = threading.Lock() and no thread in a helper.
InitDxlState ==
    /\ dxl_lock = 0
    /\ d_pc = [t \in DxlThreads |-> "idle"]
    /\ d_op = [t \in DxlThreads |-> ""]
    /\ d_left = [t \in DxlThreads |-> 0]
    /\ d_calls = 0

ParkDxl == d_prog = "none" /\ InitDxlState

\* A script about to run its first statement.
InitStartState ==
    /\ s_stage = 1
    /\ s_exit = None
    /\ s_fail = ""
    /\ s_errs = 0

ParkStart == s_prog = "none" /\ InitStartState

\* The module-level state of a control panel: servos centred at 90 degrees,
\* RANDOM mode, stopped, speed 2.0, the second IMU not seen yet.
InitServoState ==
    /\ mode_var = "RANDOM"
    /\ control_mode = "RANDOM"
    /\ is_movement_active = FALSE
    /\ servo_var = 360
    /\ servo_pos = 360
    /\ speed_var = 4
    /\ movement_speed = 4
    /\ targets = <<>>
    /\ second_imu_data = [connected |-> FALSE, yaw |-> 0]
    /\ pushed = <<>>
    /\ sv_ops = 0

ParkServo == sv_prog = "none" /\ InitServoState

\* The terminal controller before the user typed anything.
InitCliState ==
    /\ c_stdin = <<>>
    /\ c_rx = <<>>
    /\ c_exc = ""
    /\ c_before = <<>>
    /\ c_typed = 0

ParkCli == c_pc = "none" /\ c_mode = "" /\ c_written = <<>> /\ InitCliState

\* Servos configured in a run (SERVO_IDS).
NumServos == 2

\* run_service_mode after signal.signal(...) registered cleanup_and_exit.
InitServiceState ==
    /\ v_sid = 1
    /\ v_op = 1
    /\ v_in = FALSE
    /\ v_lock = "free"
    /\ v_port = FALSE
    /\ v_signal = FALSE
    /\ h_pc = "off"
    /\ h_sid = 1
    /\ h_op = 1
    /\ h_in = FALSE
    /\ v_cleanup = [sid \in 1..NumServos |-> <<>>]
    /\ v_exit = <<>>

ParkService == v_pc = "none" /\ InitServiceState

\* Random-movement thread objects a run may hold at once.
MaxRandomThreads == 2

RandomThreads == 1..MaxRandomThreads

\* The GUI in mainloop: port open, status thread started, every servo in
\* position mode with torque off, no checkbox click yet.
InitLifeState ==
    /\ l_main = "gui"
    /\ l_csid = 1
    /\ l_cop = 1
    /\ update_status_active = TRUE
    /\ l_port = TRUE
    /\ l_st = [pc |-> "while", sid |-> 1, k |-> 1]
    /\ l_reg = [sid \in 1..NumServos |-> [torque |-> FALSE, vel |-> 0]]
    /\ l_acts = [t \in RandomThreads |-> [sid \in 1..NumServos |-> <<>>]]
    /\ l_late = ""
    /\ l_toggles = 0

ParkLife ==
    /\ l_enable = FALSE
    /\ stop_event = FALSE
    /\ random_movement_enabled = FALSE
    /\ random_thread = <<>>
    /\ l_rt = [t \in RandomThreads |-> [pc |-> "unborn", sid |-> 1, op |-> 1]]
    /\ l_started = 0
    /\ InitLifeState

\* dxl_lock free, every thread outside the helpers, no write made yet.
InitModeState ==
    /\ m_lock = 0
    /\ m_pc = [t \in DxlThreads |-> "idle"]
    /\ m_op = [t \in DxlThreads |-> ""]
    /\ m_stage = [t \in DxlThreads |-> 1]
    /\ m_prev = <<>>
    /\ m_modew = <<>>
    /\ m_calls = 0

ParkMode == m_prog = "none" /\ m_torque = FALSE /\ InitModeState

\* Port opened and baud rate set; the servo initialization is about to begin.
InitCtlState ==
    /\ e_sid = 1
    /\ e_op = 1
    /\ e_port = TRUE
    /\ e_running = TRUE
    /\ e_initlog = [sid \in 1..NumServos |-> <<>>]
    /\ e_last = [sid \in 1..NumServos |-> <<>>]
    /\ e_how = ""
    /\ e_cmds = 0

ParkCtl == e_prog = "none" /\ e_pc = "none" /\ InitCtlState

(***************************************************************************)
(* AngleUnwrapper                                                          *)
(***************************************************************************)

\* Yaw samples in [0, 360) the sensor may deliver: both sides of the 0/360
\* boundary, and pairs exactly 180 apart.
Angles == {0, 10, 170, 180, 190, 350}

\* Number of unwrap calls explored.
MaxCalls == 4

\* AngleUnwrapper.__init__ / reset: no previous angle, offset 0.
UnwrapperFresh == [prev |-> None, off |-> 0]

NewOffsetSignSwapped(prev, angle, off) ==
    IF angle - prev > 180 THEN off + 360
    ELSE IF angle - prev < -180 THEN off - 360
    ELSE off

NewOffsetInclusive(prev, angle, off) ==
    IF angle - prev >= 180 THEN off - 360
    ELSE IF angle - prev <= -180 THEN off + 360
    ELSE off

\* The offset after unwrap(angle) when a previous angle exists:
\*   diff = angle - self.previous_angle
\*   if diff > 180: self.offset -= 360  elif diff < -180: self.offset += 360
NewOffset(prev, angle, off) ==
    IF angle - prev > 180 THEN off - 360
    ELSE IF angle - prev < -180 THEN off + 360
    ELSE off

\* unwrap(angle) on unwrapper state u = [prev, off]: the state after the call.
UnwrapState(u, angle) ==
    IF u.prev = None
    THEN [prev |-> Some(angle), off |-> u.off]
    ELSE [prev |-> Some(angle), off |-> NewOffset(u.prev[1], angle, u.off)]

\* unwrap(angle) on unwrapper state u: the value returned.
UnwrapValue(u, angle) ==
    IF u.prev = None THEN angle ELSE angle + UnwrapState(u, angle).off

InitUnwrap ==
    /\ previous_angle = None
    /\ offset = 0
    /\ u_ret = None
    /\ u_prev_ret = None
    /\ u_arg = None
    /\ u_before = UnwrapperFresh
    /\ u_calls = 0

\* yaw_unwrapper.unwrap(angle)
Unwrap(angle) ==
    LET u == [prev |-> previous_angle, off |-> offset] IN
    /\ u_calls < MaxCalls
    /\ previous_angle' = UnwrapState(u, angle).prev
    /\ offset' = UnwrapState(u, angle).off
    /\ u_ret' = Some(UnwrapValue(u, angle))
    /\ u_prev_ret' = u_ret
    /\ u_arg' = Some(angle)
    /\ u_before' = u
    /\ u_calls' = u_calls + 1

\* yaw_unwrapper.reset(): the trace starts anew.
UnwrapReset ==
    /\ u_calls > 0
    /\ previous_angle' = None
    /\ offset' = 0
    /\ u_ret' = None
    /\ u_prev_ret' = None
    /\ u_arg' = None
    /\ u_before' = UnwrapperFresh
    /\ UNCHANGED u_calls

NextUnwrap ==
    \/ UNCHANGED notUnwrap /\ \E a \in Angles : Unwrap(a)
    \/ UNCHANGED notUnwrap /\ UnwrapReset

InitUnwrapAll ==
    /\ InitUnwrap
    /\ ParkPoll
    /\ ParkDxl
    /\ ParkStart
    /\ ParkServo
    /\ ParkCli
    /\ ParkService
    /\ ParkLife
    /\ ParkMode
    /\ ParkCtl

SpecUnwrap == InitUnwrapAll /\ [][NextUnwrap]_vars

(***************************************************************************)
(* Claims about AngleUnwrapper (checked under SpecUnwrap)                  *)
(***************************************************************************)

\* C1: for yaw samples in [0, 360) passed to unwrap since construction or the
\* last reset, every returned value differs from the previously returned
\* value by at most 180 degrees.
C1_NoWraparoundJump ==
    (u_ret # None /\ u_prev_ret # None)
        => Abs(u_ret[1] - u_prev_ret[1]) <= 180

\* C1 witness: the latest of two consecutive calls crossed the 0/360
\* boundary (it changed the offset).
C1_Witness ==
    /\ u_ret # None
    /\ u_prev_ret # None
    /\ offset # u_before.off

\* C2: the first unwrap(a) after construction or reset returns a unchanged;
\* a later unwrap(b) with previous input a changes the offset by +360 when
\* b - a < -180, by -360 when b - a > 180 and not at all otherwise (a
\* difference of exactly 180 or -180 included), and returns b plus the
\* offset; the result is the input plus a multiple of 360; unwrap(350) then
\* unwrap(10) returns 370.
C2_UnwrapContract ==
    u_ret # None =>
        LET b == u_arg[1]
            r == u_ret[1]
            d == offset - u_before.off
        IN  /\ previous_angle = Some(b)
            /\ (u_before.prev = None => (r = b /\ d = 0))
            /\ (u_before.prev # None =>
                    LET a == u_before.prev[1] IN
                    /\ (b - a < -180 => d = 360)
                    /\ (b - a > 180 => d = -360)
                    /\ ((b - a >= -180 /\ b - a <= 180) => d = 0)
                    /\ r = b + offset)
            /\ (r - b) % 360 = 0
            /\ (u_before = [prev |-> Some(350), off |-> 0] /\ b = 10 => r = 370)

\* C2 witness: unwrap(350) then unwrap(10) has returned 370.
C2_Witness ==
    /\ u_before = [prev |-> Some(350), off |-> 0]
    /\ u_arg = Some(10)
    /\ u_ret = Some(370)

(***************************************************************************)
(* The serial line protocol and the per-sample pipeline shared by the      *)
(* visualizer scripts                                                      *)
(***************************************************************************)

\* Lines the device may send, by what the reader makes of them:
\*   "euler"   "Euler: <yaw>, <pitch>, <roll>" with three valid numbers
\*   "imu2"    "IMU2: ..." with three valid numbers
\*   "text"    any other text
\*   "badnum"  matches euler_regex but float() raises, e.g. "Euler: 1.2.3, 0, 0"
\*   "badutf"  bytes that are not valid UTF-8
LineKinds == {"euler", "imu2", "text", "badnum", "badutf"}

\* Yaw values carried by Euler lines: one on each side of the 0/360 boundary.
PollAngles == {10, 350}

\* The n-th line the device sent.
Line(kind, n, a) == [kind |-> kind, id |-> n, yaw |-> a]

\* Lines the device sends in a run.
MaxLines == 3

\* Lines the serial input buffer holds at most.
MaxPending == 3

\* Bytes per line.
LineBytes == 60

\* "if ser.in_waiting > 100" in the except branch.
OverflowThreshold == 100

\* DATA_HISTORY_LENGTH (200 in the scripts), scaled down for checking.
DATA_HISTORY_LENGTH == 2

\* User actions (button presses, checkbox toggles) in a run.
MaxUser == 1

\* ser.in_waiting: bytes pending in the input buffer.
InWaiting(buf) == Len(buf) * LineBytes

\* s[-n:]
LastN(s, n) == IF Len(s) <= n THEN s ELSE SubSeq(s, Len(s) - n + 1, Len(s))

\* KalmanFilter3D(): state zeros(6), covariance eye(6) * 1000.  An instance
\* is its identity and the predict/update steps applied to it since
\* construction, which determine state and covariance.
KalmanFilter3D(id) == [id |-> id, ops |-> <<>>]

\* kalman_filter.predict()
Predict(kf) == [kf EXCEPT !.ops = Append(@, [op |-> "predict", id |-> 0, yaw |-> 0])]

\* kalman_filter.update(measurement) for the measurement of sample n
Update(kf, n, yaw) == [kf EXCEPT !.ops = Append(@, [op |-> "update", id |-> n, yaw |-> yaw])]

\* The value update() returns for sample n: state[0:3] of the instance after
\* the steps applied so far.
Filtered(kf, n) == [id |-> n, kf |-> kf.id, steps |-> Len(kf.ops)]

ExceptionAlwaysResets(rest) == <<>>

ExceptionNeverResets(rest) == rest

\* except Exception: ... if ser.in_waiting > 100: ser.reset_input_buffer()
\* The input buffer after the handler, from what was pending after the line.
AfterException(rest) ==
    IF InWaiting(rest) > OverflowThreshold THEN <<>> ELSE rest

\* Whether reading and parsing line l raises in the given program:
\* imu_trace_3d.py decodes strictly, the others with errors='replace';
\* float() raises on a malformed number everywhere.
Raises(p, l) ==
    \/ l.kind = "badnum"
    \/ l.kind = "badutf" /\ p = "trace"

\* The raw trace after appending sample n with (unwrapped) yaw v and trimming
\* to the last DATA_HISTORY_LENGTH entries, for x (yaw) and for y, z.
AppendX(xs, n, v) == Append(xs, [id |-> n, yaw |-> v])

AppendYZ(s, n) == Append(s, [id |-> n])

\* "if len(x_data) > DATA_HISTORY_LENGTH: s = s[-DATA_HISTORY_LENGTH:]" for one
\* list s, where over is the test on x_data (on ghost_x_data for the ghost trace).
TrimTo(s, over) == IF over THEN LastN(s, DATA_HISTORY_LENGTH) ELSE s

\* One Euler sample in the scripts without a filter: append to the raw
\* trace, then trim.
StoreRaw(l) ==
    LET xs == AppendX(x_data, l.id, l.yaw)
        over == Len(xs) > DATA_HISTORY_LENGTH
    IN  /\ x_data' = TrimTo(xs, over)
        /\ y_data' = TrimTo(AppendYZ(y_data, l.id), over)
        /\ z_data' = TrimTo(AppendYZ(z_data, l.id), over)
        /\ UNCHANGED <<x_filtered, y_filtered, z_filtered,
                       ghost_x_data, ghost_y_data, ghost_z_data, filterVars>>

\* One IMU2 sample in macbook/imu_trace_3d.py: append to the ghost trace,
\* then trim.
StoreGhost(l) ==
    LET gs == AppendX(ghost_x_data, l.id, l.yaw)
        over == Len(gs) > DATA_HISTORY_LENGTH
    IN  /\ ghost_x_data' = TrimTo(gs, over)
        /\ ghost_y_data' = TrimTo(AppendYZ(ghost_y_data, l.id), over)
        /\ ghost_z_data' = TrimTo(AppendYZ(ghost_z_data, l.id), over)
        /\ UNCHANGED <<x_data, y_data, z_data,
                       x_filtered, y_filtered, z_filtered, filterVars>>

\* One Euler sample in visualizer_imu.py: unwrap the yaw if continuous yaw
\* is on, predict, update, append raw and filtered values, then trim.
StoreFiltered(l) ==
    LET yaw == IF continuous_yaw THEN UnwrapValue(yaw_unwrapper, l.yaw) ELSE l.yaw
        kf == Update(Predict(kalman_filter), l.id, yaw)
        f == Filtered(kf, l.id)
        xs == AppendX(x_data, l.id, yaw)
        over == Len(xs) > DATA_HISTORY_LENGTH
    IN  /\ yaw_unwrapper' = IF continuous_yaw
                            THEN UnwrapState(yaw_unwrapper, l.yaw)
                            ELSE yaw_unwrapper
        /\ kalman_filter' = kf
        /\ x_data' = TrimTo(xs, over)
        /\ y_data' = TrimTo(AppendYZ(y_data, l.id), over)
        /\ z_data' = TrimTo(AppendYZ(z_data, l.id), over)
        /\ x_filtered' = TrimTo(Append(x_filtered, f), over)
        /\ y_filtered' = TrimTo(Append(y_filtered, f), over)
        /\ z_filtered' = TrimTo(Append(z_filtered, f), over)
        /\ UNCHANGED <<ghost_x_data, ghost_y_data, ghost_z_data>>

(***************************************************************************)
(* The single-threaded pollers (SpecPoll):                                 *)
(*   "trace"       src/imu_trace_3d.py                                     *)
(*   "macbook"     src/arduino_and_macbook/macbook/imu_trace_3d.py         *)
(*   "visualizer"  src/arduino_and_macbook/visualizer_imu.py               *)
(* update_plot is a Tk after() callback; button and checkbox callbacks run *)
(* on the same thread, so never inside update_plot.                        *)
(***************************************************************************)
PollProgs == {"trace", "macbook", "visualizer"}

\* The scripts whose update_plot reads in a "while ser.in_waiting > 0" loop.
WhileProgs == {"macbook", "visualizer"}

InitPoll == prog \in PollProgs /\ InitProgramState

\* The device sends one more line.
Arrive(kind, a) ==
    /\ sent < MaxLines
    /\ Len(rx) < MaxPending
    /\ sent' = sent + 1
    /\ rx' = Append(rx, Line(kind, sent + 1, a))
    /\ p_last' = "arrive"
    /\ UNCHANGED <<prog, p_pc, traceVars, filterVars, continuous_yaw, zero_sent,
                   p_user, p_read, p_dropped>>

LoopContinuesOnce(buf) == InWaiting(buf) > 0 /\ p_last = "poll_start"

\* "while ser.in_waiting > 0"
LoopContinues(buf) == InWaiting(buf) > 0

\* The after() timer fires and update_plot begins (while-loop scripts).
PollStart ==
    /\ prog \in WhileProgs
    /\ p_pc = "idle"
    /\ p_pc' = "loop"
    /\ p_last' = "poll_start"
    /\ p_read' = 0
    /\ UNCHANGED <<prog, rx, sent, traceVars, filterVars, continuous_yaw, zero_sent,
                   p_user, p_dropped>>

\* One iteration of the while loop: read a line and handle it inside try/except.
PollLine ==
    /\ prog \in WhileProgs
    /\ p_pc = "loop"
    /\ LoopContinues(rx)
    /\ LET l == Head(rx) IN
       IF Raises(prog, l)
       THEN /\ rx' = AfterException(Tail(rx))
            /\ p_last' = "line_exc"
            /\ UNCHANGED <<traceVars, filterVars>>
       ELSE /\ rx' = Tail(rx)
            /\ IF l.kind = "euler"
               THEN /\ p_last' = "line_ok"
                    /\ IF prog = "visualizer" THEN StoreFiltered(l) ELSE StoreRaw(l)
               ELSE IF l.kind = "imu2" /\ prog = "macbook"
               THEN /\ p_last' = "line_ok"
                    /\ StoreGhost(l)
               ELSE /\ p_last' = "line_other"
                    /\ UNCHANGED <<traceVars, filterVars>>
    /\ p_read' = p_read + 1
    /\ p_dropped' = p_dropped + (Len(rx) - 1 - Len(rx'))
    /\ UNCHANGED <<prog, sent, p_pc, continuous_yaw, zero_sent, p_user>>

\* The loop ends and update_plot reschedules itself: root.after(10, update_plot).
PollEnd ==
    /\ prog \in WhileProgs
    /\ p_pc = "loop"
    /\ ~LoopContinues(rx)
    /\ p_pc' = "idle"
    /\ p_last' = "poll_end"
    /\ UNCHANGED <<prog, rx, sent, traceVars, filterVars, continuous_yaw, zero_sent,
                   p_user, p_read, p_dropped>>

\* update_plot of src/imu_trace_3d.py, one whole invocation: "if
\* ser.in_waiting > 0" reads one line with no try/except; an exception leaves
\* the callback before root.after(50, update_plot).
PollTrace ==
    /\ prog = "trace"
    /\ p_pc = "idle"
    /\ IF InWaiting(rx) > 0
       THEN LET l == Head(rx) IN
            /\ rx' = Tail(rx)
            /\ p_read' = 1
            /\ IF Raises(prog, l)
               THEN /\ p_pc' = "dead"
                    /\ p_last' = "poll_crash"
                    /\ UNCHANGED <<traceVars, filterVars>>
               ELSE /\ p_pc' = "idle"
                    /\ p_last' = "poll_end"
                    /\ IF l.kind = "euler"
                       THEN StoreRaw(l)
                       ELSE UNCHANGED <<traceVars, filterVars>>
       ELSE /\ p_last' = "poll_end"
            /\ p_read' = 0
            /\ UNCHANGED <<rx, p_pc, traceVars, filterVars>>
    /\ UNCHANGED <<prog, sent, continuous_yaw, zero_sent, p_user, p_dropped>>

\* The Reset Plot button.  All scripts clear the raw trace; visualizer_imu.py
\* also clears the filtered trace and resets the unwrapper.
ResetPlot ==
    /\ p_pc # "loop"
    /\ p_user < MaxUser
    /\ p_user' = p_user + 1
    /\ p_last' = "reset_plot"
    /\ x_data' = <<>> /\ y_data' = <<>> /\ z_data' = <<>>
    /\ IF prog = "visualizer"
       THEN /\ x_filtered' = <<>> /\ y_filtered' = <<>> /\ z_filtered' = <<>>
            /\ yaw_unwrapper' = UnwrapperFresh
       ELSE UNCHANGED <<x_filtered, y_filtered, z_filtered, yaw_unwrapper>>
    /\ UNCHANGED <<prog, rx, sent, p_pc, ghost_x_data, ghost_y_data, ghost_z_data,
                   kalman_filter, continuous_yaw, zero_sent, p_read, p_dropped>>

ZeroFiltersKeepsUnwrapper(kf, u) ==
    [kf |-> KalmanFilter3D(kf.id + 1), u |-> u]

\* "kalman_filter = KalmanFilter3D()" then "yaw_unwrapper.reset()": the
\* filter and unwrapper that zero_imu leaves, from the ones it found.
ZeroFilters(kf, u) ==
    [kf |-> KalmanFilter3D(kf.id + 1), u |-> UnwrapperFresh]

\* The Zero IMU button.  ser.write(b"ZERO\n") either succeeds (ok) or raises,
\* which leaves the callback; after a successful write visualizer_imu.py
\* replaces the Kalman filter and resets the unwrapper.
ZeroImu(ok) ==
    /\ p_pc # "loop"
    /\ p_user < MaxUser
    /\ p_user' = p_user + 1
    /\ IF ok
       THEN /\ zero_sent' = zero_sent + 1
            /\ p_last' = "zero_ok"
            /\ IF prog = "visualizer"
               THEN /\ kalman_filter' = ZeroFilters(kalman_filter, yaw_unwrapper).kf
                    /\ yaw_unwrapper' = ZeroFilters(kalman_filter, yaw_unwrapper).u
               ELSE UNCHANGED filterVars
       ELSE /\ p_last' = "zero_fail"
            /\ UNCHANGED <<zero_sent, filterVars>>
    /\ UNCHANGED <<prog, rx, sent, p_pc, traceVars, continuous_yaw, p_read, p_dropped>>

\* The "Continuous yaw" checkbox of visualizer_imu.py: bound to the variable
\* only, no command.
ToggleContinuousYaw ==
    /\ prog = "visualizer"
    /\ p_pc # "loop"
    /\ p_user < MaxUser
    /\ p_user' = p_user + 1
    /\ continuous_yaw' = ~continuous_yaw
    /\ p_last' = "toggle_yaw"
    /\ UNCHANGED <<prog, rx, sent, p_pc, traceVars, filterVars, zero_sent,
                   p_read, p_dropped>>

NextPoll ==
    \/ UNCHANGED notPoll /\ \E k \in LineKinds \ {"euler"} : Arrive(k, 0)
    \/ UNCHANGED notPoll /\ \E a \in PollAngles : Arrive("euler", a)
    \/ UNCHANGED notPoll /\ PollStart
    \/ UNCHANGED notPoll /\ PollLine
    \/ UNCHANGED notPoll /\ PollEnd
    \/ UNCHANGED notPoll /\ PollTrace
    \/ UNCHANGED notPoll /\ ResetPlot
    \/ UNCHANGED notPoll /\ \E ok \in BOOLEAN : ZeroImu(ok)
    \/ UNCHANGED notPoll /\ ToggleContinuousYaw

InitPollAll ==
    /\ InitPoll /\ InitThreads
    /\ ParkUnwrap
    /\ ParkDxl
    /\ ParkStart
    /\ ParkServo
    /\ ParkCli
    /\ ParkService
    /\ ParkLife
    /\ ParkMode
    /\ ParkCtl

SpecPoll == InitPollAll /\ [][NextPoll]_vars

(***************************************************************************)
(* Claims about the pollers                                                *)
(***************************************************************************)

\* C4: a failure while reading, decoding or parsing one line never stops the
\* read loop: the polling callback keeps being rescheduled.
C4_ReadLoopNeverStops == p_pc # "dead"

\* C5 (as amended): in the scripts that read in a "while ser.in_waiting > 0"
\* loop, update_plot returns only when the input buffer is empty: every line
\* that was pending has been read or discarded.
C5_WhileLoopDrains ==
    (prog \in WhileProgs /\ p_last = "poll_end") => rx = <<>>

\* C5 witness: one update_plot call read two lines and returned.
C5_Witness ==
    /\ prog \in WhileProgs
    /\ p_last = "poll_end"
    /\ p_read >= 2
    /\ rx = <<>>

\* C5 as stated: every update_plot call, in every script, leaves nothing
\* pending when it returns.
C5_EveryPollDrains == p_last = "poll_end" => rx = <<>>

\* The Kalman filter was replaced by a new instance in this step.
KalmanReplaced ==
    /\ kalman_filter'.id # kalman_filter.id
    /\ kalman_filter'.ops = <<>>

\* The unwrapper was reset in this step, and the reset changed it.
UnwrapperCleared ==
    /\ yaw_unwrapper # [prev |-> None, off |-> 0]
    /\ yaw_unwrapper' = [prev |-> None, off |-> 0]

\* C8 (as amended): every user action that replaces the Kalman filter also
\* resets the unwrapper (previous angle cleared, offset 0) and leaves a new
\* filter with no steps applied; the converse is not claimed.
C8_KalmanResetResetsUnwrapper ==
    [][kalman_filter'.id # kalman_filter.id =>
          /\ KalmanReplaced
          /\ yaw_unwrapper' = [prev |-> None, off |-> 0]]_vars

\* C8 witness: Zero IMU ran after a sample had set the unwrapper's previous
\* angle; the filter is new and the unwrapper is cleared.
C8_Witness ==
    /\ prog = "visualizer"
    /\ p_last = "zero_ok"
    /\ x_data # <<>>
    /\ kalman_filter = [id |-> 1, ops |-> <<>>]
    /\ yaw_unwrapper = [prev |-> None, off |-> 0]

\* C8 as stated: a user action resets the unwrapper if and only if it resets
\* the Kalman filter.
C8_AlwaysResetTogether ==
    [][p_user' # p_user =>
          /\ (kalman_filter'.id # kalman_filter.id =>
                  yaw_unwrapper' = [prev |-> None, off |-> 0])
          /\ (UnwrapperCleared => KalmanReplaced)]_vars

\* C10 (as amended): the input buffer is reset only in the exception handler:
\* when handling a line raises and more than OverflowThreshold bytes are
\* pending after it, everything pending is discarded; when it raises with
\* less pending, or does not raise, nothing is discarded.
C10_ResetOnlyOnException ==
    [][(p_last' \in {"line_ok", "line_other", "line_exc"} /\ p_read' = p_read + 1) =>
          /\ (p_last' = "line_exc" /\ InWaiting(Tail(rx)) > OverflowThreshold)
                 => rx' = <<>>
          /\ (p_last' = "line_exc" /\ InWaiting(Tail(rx)) <= OverflowThreshold)
                 => rx' = Tail(rx)
          /\ p_last' # "line_exc" => rx' = Tail(rx)]_vars

\* C10 witness: a line raised with more than the threshold pending and the
\* handler discarded the backlog.
C10_Witness ==
    /\ p_last = "line_exc"
    /\ p_dropped >= 2
    /\ rx = <<>>

\* C10 as stated: whenever more than OverflowThreshold bytes are pending
\* during a read pass, the reader resets the input buffer, so no iteration
\* of the pass ends with more than that pending.
C10_AlwaysResetOverThreshold ==
    (p_pc = "loop" /\ p_last \in {"line_ok", "line_other", "line_exc"})
        => InWaiting(rx) <= OverflowThreshold

(***************************************************************************)
(* combined_imu_dynamixel.py (SpecComb): update_imu runs on its own thread *)
(* (imu_thread), button and checkbox callbacks on the Tk main thread.      *)
(* Neither takes a lock around the plot data, the unwrapper or the filter, *)
(* so the threads interleave between any two statements below.  One call   *)
(* on a list, the unwrapper or the filter is taken as one step.            *)
(***************************************************************************)

\* update_imu and reset_plot go through the six history lists in the same
\* order: 1..3 raw x, y, z; 4..6 filtered x, y, z.

InitComb == prog = "combined" /\ InitProgramState /\ InitThreads

\* "if self.imu_serial.in_waiting > 0: try: line = readline()...; match;
\* float(...)": the reader takes one line; a line that raises goes to the
\* except branch, a line that does not match is dropped.
ReaderReadLine ==
    /\ r_pc = "wait"
    /\ InWaiting(rx) > 0
    /\ LET l == Head(rx) IN
       IF Raises(prog, l)
       THEN /\ rx' = AfterException(Tail(rx))
            /\ p_last' = "line_exc"
            /\ UNCHANGED <<r_pc, r_line>>
       ELSE /\ rx' = Tail(rx)
            /\ IF l.kind = "euler"
               THEN r_pc' = "parsed" /\ r_line' = Some(l) /\ p_last' = "line_ok"
               ELSE UNCHANGED <<r_pc, r_line>> /\ p_last' = "line_other"
    /\ p_dropped' = p_dropped + (Len(rx) - 1 - Len(rx'))
    /\ UNCHANGED <<prog, sent, p_pc, traceVars, filterVars, continuous_yaw, zero_sent,
                   p_user, p_read, r_i, r_yaw, r_filtered, g_pc, g_i, g_zero>>

\* "if self.continuous_yaw: yaw = self.yaw_unwrapper.unwrap(yaw)"
ReaderUnwrap ==
    /\ r_pc = "parsed"
    /\ LET l == r_line[1] IN
       IF continuous_yaw
       THEN /\ r_yaw' = UnwrapValue(yaw_unwrapper, l.yaw)
            /\ yaw_unwrapper' = UnwrapState(yaw_unwrapper, l.yaw)
       ELSE /\ r_yaw' = l.yaw
            /\ UNCHANGED yaw_unwrapper
    /\ r_pc' = "unwrapped"
    /\ p_last' = "unwrap"
    /\ UNCHANGED <<prog, rx, sent, p_pc, traceVars, kalman_filter, continuous_yaw,
                   zero_sent, p_user, p_read, p_dropped,
                   r_i, r_line, r_filtered, g_pc, g_i, g_zero>>

\* "self.kalman_filter.predict()": on the instance the attribute names now.
ReaderPredict ==
    /\ r_pc = "unwrapped"
    /\ kalman_filter' = Predict(kalman_filter)
    /\ r_pc' = "predicted"
    /\ p_last' = "predict"
    /\ UNCHANGED <<prog, rx, sent, p_pc, traceVars, yaw_unwrapper, continuous_yaw,
                   zero_sent, p_user, p_read, p_dropped,
                   r_i, r_line, r_yaw, r_filtered, g_pc, g_i, g_zero>>

\* "filtered = self.kalman_filter.update(measurement)": on the instance the
\* attribute names now.
ReaderUpdate ==
    /\ r_pc = "predicted"
    /\ LET kf == Update(kalman_filter, r_line[1].id, r_yaw) IN
       /\ kalman_filter' = kf
       /\ r_filtered' = Some(Filtered(kf, r_line[1].id))
    /\ r_pc' = "append"
    /\ r_i' = 1
    /\ p_last' = "update"
    /\ UNCHANGED <<prog, rx, sent, p_pc, traceVars, yaw_unwrapper, continuous_yaw,
                   zero_sent, p_user, p_read, p_dropped,
                   r_line, r_yaw, g_pc, g_i, g_zero>>

\* The list s after the reader's i-th append, if s is the k-th list.
AppendedBy(s, k, i, raw, filtered) ==
    IF k # i THEN s
    ELSE IF k = 1 THEN AppendX(s, raw.id, raw.yaw)
    ELSE IF k <= 3 THEN AppendYZ(s, raw.id)
    ELSE Append(s, filtered)

\* One of "self.x_data.append(yaw)" ... "self.z_filtered.append(filtered[2])".
ReaderAppend ==
    /\ r_pc = "append"
    /\ LET raw == [id |-> r_line[1].id, yaw |-> r_yaw]
           f == r_filtered[1]
       IN  /\ x_data' = AppendedBy(x_data, 1, r_i, raw, f)
           /\ y_data' = AppendedBy(y_data, 2, r_i, raw, f)
           /\ z_data' = AppendedBy(z_data, 3, r_i, raw, f)
           /\ x_filtered' = AppendedBy(x_filtered, 4, r_i, raw, f)
           /\ y_filtered' = AppendedBy(y_filtered, 5, r_i, raw, f)
           /\ z_filtered' = AppendedBy(z_filtered, 6, r_i, raw, f)
    /\ IF r_i = 6
       THEN r_pc' = "trim" /\ r_i' = 0
       ELSE r_pc' = "append" /\ r_i' = r_i + 1
    /\ p_last' = "append"
    /\ UNCHANGED <<prog, rx, sent, p_pc, ghost_x_data, ghost_y_data, ghost_z_data,
                   filterVars, continuous_yaw, zero_sent, p_user, p_read, p_dropped,
                   r_line, r_yaw, r_filtered, g_pc, g_i, g_zero>>

\* "if len(self.x_data) > DATA_HISTORY_LENGTH:" and the six slices, then
\* schedule_redraw(); the reader is back at the top of its loop.
ReaderTrim ==
    /\ r_pc = "trim"
    /\ LET over == Len(x_data) > DATA_HISTORY_LENGTH IN
       /\ x_data' = TrimTo(x_data, over)
       /\ y_data' = TrimTo(y_data, over)
       /\ z_data' = TrimTo(z_data, over)
       /\ x_filtered' = TrimTo(x_filtered, over)
       /\ y_filtered' = TrimTo(y_filtered, over)
       /\ z_filtered' = TrimTo(z_filtered, over)
    /\ r_pc' = "wait"
    /\ r_line' = None
    /\ r_yaw' = 0
    /\ r_filtered' = None
    /\ p_last' = "sample_done"
    /\ UNCHANGED <<prog, rx, sent, p_pc, ghost_x_data, ghost_y_data, ghost_z_data,
                   filterVars, continuous_yaw, zero_sent, p_user, p_read, p_dropped,
                   r_i, g_pc, g_i, g_zero>>

\* The list s after step i of reset_plot, if s is the k-th list.
ClearedBy(s, k, i) == IF k = i THEN <<>> ELSE s

\* The Reset Plot button is pressed: reset_plot() begins on the GUI thread.
GuiResetPlot ==
    /\ g_pc = "idle"
    /\ p_user < MaxUser
    /\ p_user' = p_user + 1
    /\ g_pc' = "reset"
    /\ g_i' = 1
    /\ g_zero' = FALSE
    /\ p_last' = "reset_begin"
    /\ UNCHANGED <<prog, rx, sent, p_pc, traceVars, filterVars, continuous_yaw,
                   zero_sent, p_read, p_dropped,
                   r_pc, r_i, r_line, r_yaw, r_filtered>>

\* One statement of reset_plot: steps 1..6 are "self.x_data.clear()" ...
\* "self.z_filtered.clear()", step 7 is "self.yaw_unwrapper.reset()", after
\* which reset_plot (and zero_imu, if it was the caller) returns.
GuiResetStep ==
    /\ g_pc = "reset"
    /\ x_data' = ClearedBy(x_data, 1, g_i)
    /\ y_data' = ClearedBy(y_data, 2, g_i)
    /\ z_data' = ClearedBy(z_data, 3, g_i)
    /\ x_filtered' = ClearedBy(x_filtered, 4, g_i)
    /\ y_filtered' = ClearedBy(y_filtered, 5, g_i)
    /\ z_filtered' = ClearedBy(z_filtered, 6, g_i)
    /\ IF g_i = 7
       THEN /\ yaw_unwrapper' = UnwrapperFresh
            /\ g_pc' = "idle"
            /\ g_i' = 0
            /\ g_zero' = FALSE
            /\ p_last' = IF g_zero THEN "zero_ok" ELSE "reset_plot"
       ELSE /\ g_i' = g_i + 1
            /\ p_last' = "reset_step"
            /\ UNCHANGED <<yaw_unwrapper, g_pc, g_zero>>
    /\ UNCHANGED <<prog, rx, sent, p_pc, ghost_x_data, ghost_y_data, ghost_z_data,
                   kalman_filter, continuous_yaw, zero_sent, p_user, p_read, p_dropped,
                   r_pc, r_i, r_line, r_yaw, r_filtered>>

\* The Zero IMU button is pressed: zero_imu() writes "ZERO\n" and flushes;
\* if that raises (~ok) the except branch prints and zero_imu returns.
GuiZeroWrite(ok) ==
    /\ g_pc = "idle"
    /\ p_user < MaxUser
    /\ p_user' = p_user + 1
    /\ IF ok
       THEN /\ zero_sent' = zero_sent + 1
            /\ g_pc' = "zero_replace"
            /\ p_last' = "zero_written"
       ELSE /\ p_last' = "zero_fail"
            /\ UNCHANGED <<zero_sent, g_pc>>
    /\ UNCHANGED <<prog, rx, sent, p_pc, traceVars, filterVars, continuous_yaw,
                   p_read, p_dropped,
                   r_pc, r_i, r_line, r_yaw, r_filtered, g_i, g_zero>>

\* "self.kalman_filter = KalmanFilter3D()"
GuiZeroReplace ==
    /\ g_pc = "zero_replace"
    /\ kalman_filter' = ZeroFilters(kalman_filter, yaw_unwrapper).kf
    /\ g_pc' = "zero_unwrap"
    /\ p_last' = "zero_replaced"
    /\ UNCHANGED <<prog, rx, sent, p_pc, traceVars, yaw_unwrapper, continuous_yaw,
                   zero_sent, p_user, p_read, p_dropped,
                   r_pc, r_i, r_line, r_yaw, r_filtered, g_i, g_zero>>

\* "self.yaw_unwrapper.reset()", then zero_imu calls self.reset_plot().
GuiZeroUnwrap ==
    /\ g_pc = "zero_unwrap"
    /\ yaw_unwrapper' = ZeroFilters(kalman_filter, yaw_unwrapper).u
    /\ g_pc' = "reset"
    /\ g_i' = 1
    /\ g_zero' = TRUE
    /\ p_last' = "zero_unwrapped"
    /\ UNCHANGED <<prog, rx, sent, p_pc, traceVars, kalman_filter, continuous_yaw,
                   zero_sent, p_user, p_read, p_dropped,
                   r_pc, r_i, r_line, r_yaw, r_filtered>>

\* toggle_continuous_yaw: the checkbox command copies the checkbox into
\* self.continuous_yaw and resets the unwrapper when it was turned off.
GuiToggleContinuousYaw ==
    /\ g_pc = "idle"
    /\ p_user < MaxUser
    /\ p_user' = p_user + 1
    /\ continuous_yaw' = ~continuous_yaw
    /\ yaw_unwrapper' = IF continuous_yaw' THEN yaw_unwrapper ELSE UnwrapperFresh
    /\ p_last' = "toggle_yaw"
    /\ UNCHANGED <<prog, rx, sent, p_pc, traceVars, kalman_filter, zero_sent,
                   p_read, p_dropped, combVars>>

NextComb ==
    \/ UNCHANGED <<notComb, combVars>> /\ \E k \in {"text", "badnum"} : Arrive(k, 0)
    \/ UNCHANGED <<notComb, combVars>> /\ \E a \in PollAngles : Arrive("euler", a)
    \/ UNCHANGED notComb /\ ReaderReadLine
    \/ UNCHANGED notComb /\ ReaderUnwrap
    \/ UNCHANGED notComb /\ ReaderPredict
    \/ UNCHANGED notComb /\ ReaderUpdate
    \/ UNCHANGED notComb /\ ReaderAppend
    \/ UNCHANGED notComb /\ ReaderTrim
    \/ UNCHANGED notComb /\ GuiResetPlot
    \/ UNCHANGED notComb /\ GuiResetStep
    \/ UNCHANGED notComb /\ \E ok \in BOOLEAN : GuiZeroWrite(ok)
    \/ UNCHANGED notComb /\ GuiZeroReplace
    \/ UNCHANGED notComb /\ GuiZeroUnwrap
    \/ UNCHANGED notComb /\ GuiToggleContinuousYaw

InitCombAll ==
    /\ InitComb
    /\ ParkUnwrap
    /\ ParkDxl
    /\ ParkStart
    /\ ParkServo
    /\ ParkCli
    /\ ParkService
    /\ ParkLife
    /\ ParkMode
    /\ ParkCtl

SpecComb == InitCombAll /\ [][NextComb]_vars

(***************************************************************************)
(* Claims about the history buffers and the filter                         *)
(***************************************************************************)

\* No handler is part-way through: the polling callback is not inside its
\* loop, the reader thread is between samples and the GUI thread is idle.
Quiescent == p_pc # "loop" /\ r_pc = "wait" /\ g_pc = "idle"

\* s holds consecutive samples, oldest first.
InArrivalOrder(s) == \A i \in 1..(Len(s) - 1) : s[i].id < s[i + 1].id

\* The lists of one trace.
SameLength(a, b, c) == Len(a) = Len(b) /\ Len(b) = Len(c)

\* C3: once a sample has been processed, every history buffer holds at most
\* DATA_HISTORY_LENGTH entries, in arrival order, and the axis buffers of
\* one trace have the same length.
C3_HistoryBounded ==
    Quiescent =>
        /\ \A s \in {x_data, y_data, z_data, x_filtered, y_filtered, z_filtered,
                     ghost_x_data, ghost_y_data, ghost_z_data} :
               Len(s) <= DATA_HISTORY_LENGTH /\ InArrivalOrder(s)
        /\ SameLength(x_data, y_data, z_data)
        /\ SameLength(x_filtered, y_filtered, z_filtered)
        /\ SameLength(ghost_x_data, ghost_y_data, ghost_z_data)

\* C7: when Zero IMU has completed successfully the Kalman filter is a new
\* instance to which either nothing has been applied yet or the filtering
\* of the next sample, which starts with its predict step.
C7_FreshAfterZero ==
    (p_last = "zero_ok" /\ prog \in {"visualizer", "combined"}) =>
        /\ kalman_filter.id > 0
        /\ kalman_filter.ops = <<>> \/ kalman_filter.ops[1].op = "predict"

\* C9: the steps applied to a Kalman filter instance are predict, update,
\* predict, update, ...: each sample's update follows that sample's predict
\* on the same instance, also while Zero IMU runs on the GUI thread.
C9_PredictThenUpdate ==
    \A i \in 1..Len(kalman_filter.ops) :
        kalman_filter.ops[i].op = (IF i % 2 = 1 THEN "predict" ELSE "update")

(***************************************************************************)
(* The Dynamixel scripts (SpecDxl): register transactions and dxl_lock     *)
(*   "u2d2"  src/u2d2-dynamixel.py: GUI thread, status thread and          *)
(*           random-movement thread                                        *)
(*   "cli"   src/dynamixel-cli.py: one thread                              *)
(*   "spin"  src/old_gimbal/arm_machine/spin_mode.py: one thread, no lock  *)
(* A transaction is one packetHandler call (write*TxRx, read*TxRx, ping):  *)
(* a packet is sent and the reply awaited.                                 *)
(***************************************************************************)
DxlProgs == {"u2d2", "cli", "spin"}

\* Helper calls explored in a run.
MaxDxlCalls == 4

\* The threads a script runs.
ThreadsOf(p) == IF p = "u2d2" THEN {1, 2, 3} ELSE {1}

\* The helpers each thread of each script calls.
HelpersOf(p, t) ==
    IF p = "u2d2" THEN
        IF t = 1 THEN {"set_torque", "set_operating_mode", "set_goal_position",
                       "set_goal_velocity", "profile_velocity"}
        ELSE IF t = 2 THEN {"read_present"}
        ELSE {"set_operating_mode", "set_torque", "set_goal_velocity"}
    ELSE IF p = "cli" THEN
        {"set_torque", "set_operating_mode", "set_goal_velocity", "read_present", "ping"}
    ELSE {"set_operating_mode", "set_torque", "set_goal_velocity"}

\* Whether the helper makes its transactions inside "with dxl_lock:".
\* spin_mode.py has no lock; dynamixel-cli.py pings with "No lock needed".
UsesLock(p, op) == p # "spin" /\ ~(p = "cli" /\ op = "ping")

OneTxPerHold(p, op) == 1

\* Transactions the helper makes in one go (inside one "with" block where
\* it has one): set_operating_mode writes torque-off and then the mode,
\* except in dynamixel-cli.py, where the torque write is a call of its own.
TxCount(p, op) == IF op = "set_operating_mode" /\ p # "cli" THEN 2 ELSE 1

InitDxl == d_prog \in DxlProgs /\ InitDxlState

\* Thread t calls a helper: it arrives at "with dxl_lock:", or at the
\* packetHandler call where there is no lock.
DxlCall(t, op) ==
    /\ t \in ThreadsOf(d_prog)
    /\ op \in HelpersOf(d_prog, t)
    /\ d_pc[t] = "idle"
    /\ d_calls < MaxDxlCalls
    /\ d_calls' = d_calls + 1
    /\ d_op' = [d_op EXCEPT ![t] = op]
    /\ d_left' = [d_left EXCEPT ![t] = TxCount(d_prog, op)]
    /\ d_pc' = [d_pc EXCEPT ![t] = IF UsesLock(d_prog, op) THEN "want" ELSE "ready"]
    /\ UNCHANGED <<d_prog, dxl_lock>>

LockIgnored(l) == TRUE

\* dxl_lock.acquire() succeeds only on a free lock.
CanAcquire(l) == l = 0

\* "with dxl_lock:" is entered.
DxlAcquire(t) ==
    /\ d_pc[t] = "want"
    /\ CanAcquire(dxl_lock)
    /\ dxl_lock' = t
    /\ d_pc' = [d_pc EXCEPT ![t] = "ready"]
    /\ UNCHANGED <<d_prog, d_op, d_left, d_calls>>

\* packetHandler.write*TxRx / read*TxRx / ping begins: the packet goes out.
DxlTxBegin(t) ==
    /\ d_pc[t] = "ready"
    /\ d_pc' = [d_pc EXCEPT ![t] = "tx"]
    /\ UNCHANGED <<d_prog, dxl_lock, d_op, d_left, d_calls>>

\* The reply (or the timeout) arrives and the packetHandler call returns.
DxlTxEnd(t) ==
    /\ d_pc[t] = "tx"
    /\ d_left' = [d_left EXCEPT ![t] = @ - 1]
    /\ d_pc' = [d_pc EXCEPT ![t] = IF d_left[t] > 1 THEN "ready" ELSE "done"]
    /\ UNCHANGED <<d_prog, dxl_lock, d_op, d_calls>>

\* The "with" block is left (the lock released) and the helper returns.
DxlReturn(t) ==
    /\ d_pc[t] = "done"
    /\ dxl_lock' = IF UsesLock(d_prog, d_op[t]) THEN 0 ELSE dxl_lock
    /\ d_pc' = [d_pc EXCEPT ![t] = "idle"]
    /\ d_op' = [d_op EXCEPT ![t] = ""]
    /\ UNCHANGED <<d_prog, d_left, d_calls>>

AllHelpers ==
    {"set_torque", "set_operating_mode", "set_goal_position", "set_goal_velocity",
     "profile_velocity", "read_present", "ping"}

NextDxl ==
    \/ UNCHANGED notDxl /\ \E t \in DxlThreads, op \in AllHelpers : DxlCall(t, op)
    \/ UNCHANGED notDxl /\ \E t \in DxlThreads : DxlAcquire(t)
    \/ UNCHANGED notDxl /\ \E t \in DxlThreads : DxlTxBegin(t)
    \/ UNCHANGED notDxl /\ \E t \in DxlThreads : DxlTxEnd(t)
    \/ UNCHANGED notDxl /\ \E t \in DxlThreads : DxlReturn(t)

InitDxlAll ==
    /\ InitDxl
    /\ ParkUnwrap
    /\ ParkPoll
    /\ ParkStart
    /\ ParkServo
    /\ ParkCli
    /\ ParkService
    /\ ParkLife
    /\ ParkMode
    /\ ParkCtl

SpecDxl == InitDxlAll /\ [][NextDxl]_vars

\* The threads inside a transaction.
InTransaction == {t \in DxlThreads : d_pc[t] = "tx"}

\* The scripts that run more than one thread.
Threaded(p) == Cardinality(ThreadsOf(p)) > 1

\* C6 (as amended): at no time are two threads inside a transaction, and in
\* the scripts that run several threads every transaction is made by the
\* thread that holds dxl_lock.
C6_TransactionsExclusive ==
    /\ Cardinality(InTransaction) <= 1
    /\ Threaded(d_prog) => \A t \in InTransaction : dxl_lock = t

\* C6 witness: one thread is inside a transaction holding the lock while
\* another waits at "with dxl_lock:".
C6_Witness ==
    \E t, u \in DxlThreads :
        /\ d_pc[t] = "tx"
        /\ dxl_lock = t
        /\ d_pc[u] = "want"

\* C6 as stated: in every Dynamixel script, every transaction is made by a
\* thread that holds dxl_lock.
C6_EveryTransactionLocked == \A t \in InTransaction : dxl_lock = t

(***************************************************************************)
(* Program startup and exit status (SpecStart)                             *)
(*   "u2d2"       src/u2d2-dynamixel.py                                    *)
(*   "combined"   src/combined_imu_dynamixel.py                            *)
(*   "trace_cli"  src/arduino_and_macbook/macbook/imu_trace_cli.py         *)
(*   "dxl_cli"    src/dynamixel-cli.py                                     *)
(*   "spin"       src/old_gimbal/arm_machine/spin_mode.py                  *)
(***************************************************************************)
StartProgs == {"u2d2", "combined", "trace_cli", "dxl_cli", "spin"}

\* Communication errors explored in a run.
MaxCommErrors == 12

\* The startup stages of each script, in the order it goes through them.
StartStages(p) ==
    IF p = "u2d2" \/ p = "spin"
    THEN <<"import_sdk", "config_file", "config_keys", "open_port", "set_baud">>
    ELSE IF p = "combined"
    THEN <<"import_sdk", "config_file", "config_keys", "open_port", "set_baud",
           "find_device", "open_serial">>
    ELSE IF p = "dxl_cli"
    THEN <<"import_sdk", "config_file", "config_keys", "find_device",
           "open_port", "set_baud">>
    ELSE <<"find_device", "open_serial">>

\* Loading the configuration: the file and its keys.
ConfigStages == {"config_file", "config_keys"}

\* Reaching the hardware: the SDK, the device, the port and its baud rate.
ConnectStages == {"import_sdk", "find_device", "open_port", "set_baud", "open_serial"}

EveryFailureExitsOne(p, stage) == 1

\* The exit status after a failed stage: sys.exit(1), except that main_cli
\* and run_service_mode of dynamixel-cli.py print and return when the port
\* cannot be opened or its baud rate set, which ends the process normally.
FailureStatus(p, stage) ==
    IF p = "dxl_cli" /\ stage \in {"open_port", "set_baud"} THEN 0 ELSE 1

InitStart == s_prog \in StartProgs /\ InitStartState

Running == s_exit = None /\ s_stage > Len(StartStages(s_prog))

\* The next startup stage succeeds.
StageOk ==
    /\ s_exit = None
    /\ s_stage <= Len(StartStages(s_prog))
    /\ s_stage' = s_stage + 1
    /\ UNCHANGED <<s_prog, s_exit, s_fail, s_errs>>

\* The next startup stage fails: the script prints and ends.
StageFails ==
    /\ s_exit = None
    /\ s_stage <= Len(StartStages(s_prog))
    /\ s_fail' = StartStages(s_prog)[s_stage]
    /\ s_exit' = Some(FailureStatus(s_prog, StartStages(s_prog)[s_stage]))
    /\ UNCHANGED <<s_prog, s_stage, s_errs>>

\* check_comm_result: a communication or packet error is printed and the
\* helper returns False; the exit status stays what it was (none).
AfterCommError(status) == status

\* A register transaction of a running Dynamixel script fails.
DxlCommError ==
    /\ Running
    /\ s_prog # "trace_cli"
    /\ s_errs < MaxCommErrors
    /\ s_errs' = s_errs + 1
    /\ s_exit' = AfterCommError(s_exit)
    /\ UNCHANGED <<s_prog, s_stage, s_fail>>

\* imu_trace_cli.py: an exception other than KeyboardInterrupt raised in
\* the main loop (float() on a malformed number at line 75, the name
\* "select" at line 83, a serial error) passes the finally block and ends
\* the process with a traceback.
LoopException ==
    /\ Running
    /\ s_prog = "trace_cli"
    /\ s_fail' = "loop_exception"
    /\ s_exit' = Some(1)
    /\ UNCHANGED <<s_prog, s_stage, s_errs>>

NextStart ==
    \/ UNCHANGED notStart /\ StageOk
    \/ UNCHANGED notStart /\ StageFails
    \/ UNCHANGED notStart /\ DxlCommError
    \/ UNCHANGED notStart /\ LoopException

InitStartAll ==
    /\ InitStart
    /\ ParkUnwrap
    /\ ParkPoll
    /\ ParkDxl
    /\ ParkServo
    /\ ParkCli
    /\ ParkService
    /\ ParkLife
    /\ ParkMode
    /\ ParkCtl

SpecStart == InitStartAll /\ [][NextStart]_vars

\* C11 (as amended): a process exits with an error only when a startup
\* stage failed (loading the configuration, or reaching the hardware, but
\* not the port stages of dynamixel-cli.py, which end it with status 0) or
\* when the main loop of imu_trace_cli.py raised; a Dynamixel communication
\* error is logged and never ends the process.
C11_ErrorExits ==
    /\ s_exit = Some(1) =>
           \/ s_fail \in ConfigStages
           \/ s_fail \in ConnectStages
                  /\ ~(s_prog = "dxl_cli" /\ s_fail \in {"open_port", "set_baud"})
           \/ s_fail = "loop_exception"
    /\ (s_exit # None /\ s_fail \in ConfigStages) => s_exit = Some(1)
    /\ (s_exit # None /\ s_prog # "trace_cli") => s_errs = 0

\* C11 witness: the port could not be opened and the process exited with
\* status 1 although the configuration had been loaded.
C11_Witness ==
    /\ s_prog = "u2d2"
    /\ s_fail = "open_port"
    /\ s_exit = Some(1)

\* C11 as stated: only a configuration-loading failure ends a process with
\* an error.
C11_OnlyConfigFatal == s_exit = Some(1) => s_fail \in ConfigStages

(***************************************************************************)
(* The servo control panels: macbook/imu_trace_3d.py (CONTROL commands to  *)
(* the Arduino) and rpi_only/rpi_imu_trace_3d.py (PCA9685 channels).       *)
(* One servo channel is modelled; the code treats all of them alike.       *)
(* Angles are kept in quarter degrees and speeds in half units, so that    *)
(* the step of the random movement, movement_speed * 0.5, is exact.        *)
(***************************************************************************)
ServoProgs == {"macbook", "rpi"}

\* Callbacks explored in a run.
MaxServoOps == 6

\* Positions a ttk.Scale(from_=0, to=180) can write: 0, 45.25, 90, 180.
SliderValues == {0, 181, 360, 720}

\* Positions of the speed slider ttk.Scale(from_=0.5, to=10): 0.5, 2.0, 2.5, 10.
SpeedValues == {1, 4, 5, 20}

\* Yaw values the second IMU reports: -200, -0.75, 12.5, 200 degrees.
Imu2Yaws == {-800, -3, 50, 800}

\* random.randint(30, 150), in degrees.
RandomTargets == {30, 150}

\* int(x): truncation toward zero, in degrees.
IntOf(q) == IF q >= 0 THEN q \div 4 ELSE -((-q) \div 4)

\* tk.IntVar.get(): the stored number as an int, in degrees.
IntVarGet(q) == IntOf(q)

Deg(d) == d * 4

Min(a, b) == IF a < b THEN a ELSE b

Max(a, b) == IF a > b THEN a ELSE b

FollowAngleUnclamped(yaw) == IntOf(Deg(90) + yaw)

\* FOLLOW: int(90 + yaw), constrained to 0..180; in degrees.
FollowAngle(yaw) == Max(0, Min(180, IntOf(Deg(90) + yaw)))

\* One step of the smooth random movement toward target (degrees).
RandomStep(pos, target, speed) ==
    IF Abs(pos - Deg(target)) > speed
    THEN IF pos < Deg(target) THEN pos + speed ELSE pos - speed
    ELSE pos

\* What reaches the hardware: the angle and the path it took.
Push(q, how) == Some([angle |-> q, via |-> how])

InitServo == sv_prog \in ServoProgs /\ InitServoState

\* send_control_command() with the mode and slider as they will be when it
\* runs: m is mode_var, active is is_movement_active, v is servo_var.
SendControlCommand(m, v) ==
    /\ control_mode' = m
    /\ IF m = "CONTROL"
       THEN /\ servo_pos' = Deg(IntVarGet(v))
            /\ servo_var' = v
            /\ pushed' = Push(Deg(IntVarGet(v)),
                              IF sv_prog = "rpi" THEN "pca" ELSE "CONTROL")
       ELSE IF m = "FOLLOW" /\ sv_prog = "macbook" /\ second_imu_data.connected
       THEN /\ servo_var' = Deg(FollowAngle(second_imu_data.yaw))
            /\ pushed' = Push(Deg(FollowAngle(second_imu_data.yaw)), "CONTROL")
            /\ servo_pos' = servo_pos
       ELSE /\ servo_var' = v
            /\ UNCHANGED <<servo_pos, pushed>>
    /\ movement_speed' = IF Abs(speed_var - movement_speed) * 5 > 1
                         THEN speed_var ELSE movement_speed

Step == sv_ops < MaxServoOps /\ sv_ops' = sv_ops + 1 /\ UNCHANGED sv_prog

\* The user drags the slider; on_slider_change applies it in CONTROL mode.
SliderMove(v) ==
    /\ Step
    /\ IF mode_var = "CONTROL" /\ is_movement_active
       THEN SendControlCommand(mode_var, v)
       ELSE /\ servo_var' = v
            /\ UNCHANGED <<control_mode, servo_pos, pushed, movement_speed>>
    /\ UNCHANGED <<mode_var, is_movement_active, speed_var, targets,
                   second_imu_data>>

\* ModernSlider.change_value(amount): the -10, -1, +1, +10 buttons.
ChangeValue(amount) ==
    /\ Step
    /\ servo_var' = Deg(Max(0, Min(180, IntVarGet(servo_var) + amount)))
    /\ UNCHANGED <<mode_var, control_mode, is_movement_active, servo_pos,
                   speed_var, movement_speed, targets, second_imu_data, pushed>>

\* ModernSlider.center_value(): (max_val - min_val) / 2 + min_val.
CenterValue ==
    /\ Step
    /\ servo_var' = (Deg(180) - Deg(0)) \div 2 + Deg(0)
    /\ UNCHANGED <<mode_var, control_mode, is_movement_active, servo_pos,
                   speed_var, movement_speed, targets, second_imu_data, pushed>>

\* A mode radio button; the speed slider.
SelectMode(m) ==
    /\ Step
    /\ m = "FOLLOW" => sv_prog = "macbook"
    /\ mode_var' = m
    /\ UNCHANGED <<control_mode, is_movement_active, servo_var, servo_pos,
                   speed_var, movement_speed, targets, second_imu_data, pushed>>

SpeedMove(s) ==
    /\ Step
    /\ speed_var' = s
    /\ UNCHANGED <<mode_var, control_mode, is_movement_active, servo_var,
                   servo_pos, movement_speed, targets, second_imu_data, pushed>>

\* start_movement(): applies the current settings.
StartMovement ==
    /\ Step
    /\ is_movement_active' = TRUE
    /\ SendControlCommand(mode_var, servo_var)
    /\ UNCHANGED <<mode_var, speed_var, targets, second_imu_data>>

StopMovement ==
    /\ Step
    /\ is_movement_active' = FALSE
    /\ UNCHANGED <<mode_var, control_mode, servo_var, servo_pos, speed_var,
                   movement_speed, targets, second_imu_data, pushed>>

\* The "Apply Settings" button.
ApplySettings ==
    /\ Step
    /\ SendControlCommand(mode_var, servo_var)
    /\ UNCHANGED <<mode_var, is_movement_active, speed_var, targets,
                   second_imu_data>>

\* update_plot of the macbook panel reads a line of the second IMU; in
\* FOLLOW mode it pushes the servos after it.
Imu2Line(yaw) ==
    /\ Step
    /\ sv_prog = "macbook"
    /\ second_imu_data' = [connected |-> TRUE, yaw |-> yaw]
    /\ IF mode_var = "FOLLOW" /\ is_movement_active
       THEN /\ control_mode' = mode_var
            /\ servo_var' = Deg(FollowAngle(yaw))
            /\ pushed' = Push(Deg(FollowAngle(yaw)), "CONTROL")
            /\ movement_speed' = IF Abs(speed_var - movement_speed) * 5 > 1
                                 THEN speed_var ELSE movement_speed
            /\ UNCHANGED servo_pos
       ELSE UNCHANGED <<control_mode, servo_var, servo_pos, pushed,
                        movement_speed>>
    /\ UNCHANGED <<mode_var, is_movement_active, speed_var, targets>>

\* periodic_command_update(): every 100 ms (macbook) or 50 ms (rpi).  The
\* rpi panel also makes one step of the random movement toward a target t,
\* which is the old target or a fresh one.
PeriodicCommandUpdate(t) ==
    /\ Step
    /\ is_movement_active
    /\ IF mode_var = "CONTROL"
       THEN /\ SendControlCommand(mode_var, servo_var)
            /\ UNCHANGED targets
       ELSE /\ mode_var = "RANDOM"
            /\ sv_prog = "rpi"
            /\ targets' = Some(t)
            /\ servo_pos' = RandomStep(servo_pos, t, movement_speed)
            /\ pushed' = Push(RandomStep(servo_pos, t, movement_speed), "random")
            /\ servo_var' = Deg(IntOf(RandomStep(servo_pos, t, movement_speed)))
            /\ UNCHANGED <<control_mode, movement_speed>>
    /\ UNCHANGED <<mode_var, is_movement_active, speed_var, second_imu_data>>

NextServo ==
    \/ UNCHANGED notServo /\ \E v \in SliderValues : SliderMove(v)
    \/ UNCHANGED notServo /\ \E a \in {-10, -1, 1, 10} : ChangeValue(a)
    \/ UNCHANGED notServo /\ CenterValue
    \/ UNCHANGED notServo /\ \E m \in {"RANDOM", "CONTROL", "FOLLOW"} : SelectMode(m)
    \/ UNCHANGED notServo /\ \E s \in SpeedValues : SpeedMove(s)
    \/ UNCHANGED notServo /\ StartMovement
    \/ UNCHANGED notServo /\ StopMovement
    \/ UNCHANGED notServo /\ ApplySettings
    \/ UNCHANGED notServo /\ \E y \in Imu2Yaws : Imu2Line(y)
    \/ UNCHANGED notServo /\ \E t \in RandomTargets : PeriodicCommandUpdate(t)

InitServoAll ==
    /\ InitServo
    /\ ParkUnwrap
    /\ ParkPoll
    /\ ParkDxl
    /\ ParkStart
    /\ ParkCli
    /\ ParkService
    /\ ParkLife
    /\ ParkMode
    /\ ParkCtl

SpecServo == InitServoAll /\ [][NextServo]_vars

\* C12 (as amended): every servo angle pushed to hardware lies in 0..180
\* degrees; it is a whole number of degrees when it is a field of a CONTROL
\* command or a PCA9685 angle set from the sliders, while a PCA9685 angle
\* set by a step of the random movement advances by movement_speed * 0.5
\* and need not be whole.
C12_PushedInRange ==
    pushed # <<>> =>
        /\ pushed[1].angle >= Deg(0)
        /\ pushed[1].angle <= Deg(180)
        /\ pushed[1].via # "random" => pushed[1].angle % 4 = 0

\* C12 witness: a FOLLOW update computed from a second-IMU yaw of 200
\* degrees pushed the clamped angle 180.
C12_Witness ==
    /\ pushed # <<>>
    /\ pushed[1].via = "CONTROL"
    /\ control_mode = "FOLLOW"
    /\ second_imu_data.yaw = 800
    /\ pushed[1].angle = Deg(180)

\* C12 as stated: every pushed angle is an integer in 0..180.
C12_PushedInteger ==
    pushed # <<>> =>
        /\ pushed[1].angle >= Deg(0)
        /\ pushed[1].angle <= Deg(180)
        /\ pushed[1].angle % 4 = 0

(***************************************************************************)
(* imu_trace_cli.py: the terminal controller.  After the port is opened    *)
(* main() writes the mode and START and enters its loop: drain the serial  *)
(* input, then ask select.select whether a command line is waiting on      *)
(* standard input and handle it.  The module imports serial, re, time,     *)
(* argparse, sys and datetime: the name "select" is never bound.           *)
(***************************************************************************)
CliModes == {"RANDOM", "CONTROL", "FOLLOW"}

\* Lines typed by the user and lines sent by the device in a run.
MaxTyped == 3

\* Command lines after strip().upper(): the verb and what follows it.
CliCommands ==
    {[verb |-> "Q", arg |-> ""], [verb |-> "S", arg |-> ""],
     [verb |-> "M", arg |-> "CONTROL"], [verb |-> "M", arg |-> "SPIN"],
     [verb |-> "SPEED", arg |-> "5.0"], [verb |-> "SPEED", arg |-> "0.2"],
     [verb |-> "SPEED", arg |-> "FAST"]}

\* float(cmd[6:]) in tenths; <<>> when it raises ValueError.
ParseSpeed(arg) ==
    IF arg = "5.0" THEN Some(50)
    ELSE IF arg = "0.2" THEN Some(2)
    ELSE IF arg = "10.5" THEN Some(105)
    ELSE <<>>

\* Lines 84-124: what handling one command line writes, the mode after it
\* and whether the loop is left.
HandleCommand(cmd, mode) ==
    IF cmd.verb = "Q" THEN [written |-> <<>>, mode |-> mode, quit |-> TRUE]
    ELSE IF cmd.verb = "S" THEN [written |-> <<"STOP">>, mode |-> mode, quit |-> FALSE]
    ELSE IF cmd.verb = "M"
    THEN IF cmd.arg \in CliModes
         THEN [written |-> <<cmd.arg>>, mode |-> cmd.arg, quit |-> FALSE]
         ELSE [written |-> <<>>, mode |-> mode, quit |-> FALSE]
    ELSE IF cmd.verb = "SPEED"
    THEN IF ParseSpeed(cmd.arg) # <<>> /\ ParseSpeed(cmd.arg)[1] >= 5
                                      /\ ParseSpeed(cmd.arg)[1] <= 100
         THEN [written |-> <<"SPEED," \o cmd.arg>>, mode |-> mode, quit |-> FALSE]
         ELSE [written |-> <<>>, mode |-> mode, quit |-> FALSE]
    ELSE [written |-> <<>>, mode |-> mode, quit |-> FALSE]

\* main() up to the loop: the mode and START are written.
InitCli ==
    /\ c_pc = "loop"
    /\ c_mode \in CliModes
    /\ c_written = <<c_mode, "START">>
    /\ InitCliState

\* The user types a command line and presses return.
UserTypes(cmd) ==
    /\ c_pc = "loop"
    /\ c_typed < MaxTyped
    /\ c_typed' = c_typed + 1
    /\ c_stdin' = Append(c_stdin, cmd)
    /\ UNCHANGED <<c_pc, c_rx, c_mode, c_written, c_exc, c_before>>

\* The device sends a line.
SerialLine(kind) ==
    /\ c_pc = "loop"
    /\ c_typed < MaxTyped
    /\ c_typed' = c_typed + 1
    /\ c_rx' = Append(c_rx, kind)
    /\ UNCHANGED <<c_pc, c_stdin, c_mode, c_written, c_exc, c_before>>

\* finally: STOP is written and the port closed.
Finally(exc) ==
    /\ c_pc' = "ended"
    /\ c_exc' = exc
    /\ c_written' = Append(c_written, "STOP")

\* The inner loop reads one waiting line; float() of a number such as
\* "1.2.3" raises ValueError, which main() does not catch.
DrainLine ==
    /\ c_pc = "loop"
    /\ c_rx # <<>>
    /\ c_rx' = Tail(c_rx)
    /\ IF Head(c_rx) = "badnum"
       THEN Finally("ValueError")
       ELSE UNCHANGED <<c_pc, c_exc, c_written>>
    /\ UNCHANGED <<c_stdin, c_mode, c_before, c_typed>>

\* Line 83, reached when nothing waits on the serial port: evaluating
\* select.select raises NameError, which main() does not catch.
CheckInput ==
    /\ c_pc = "loop"
    /\ c_rx = <<>>
    /\ c_before' = Some([mode |-> c_mode, written |-> c_written,
                         cmd |-> IF c_stdin = <<>> THEN <<>> ELSE Some(Head(c_stdin))])
    /\ Finally("NameError")
    /\ UNCHANGED <<c_stdin, c_rx, c_mode, c_typed>>

\* Ctrl-C: except KeyboardInterrupt, then finally.
KeyboardInterrupt ==
    /\ c_pc = "loop"
    /\ Finally("KeyboardInterrupt")
    /\ UNCHANGED <<c_stdin, c_rx, c_mode, c_before, c_typed>>

NextCli ==
    \/ UNCHANGED notCli /\ \E cmd \in CliCommands : UserTypes(cmd)
    \/ UNCHANGED notCli /\ \E k \in {"euler", "text", "badnum"} : SerialLine(k)
    \/ UNCHANGED notCli /\ DrainLine
    \/ UNCHANGED notCli /\ CheckInput
    \/ UNCHANGED notCli /\ KeyboardInterrupt

InitCliAll ==
    /\ InitCli
    /\ ParkUnwrap
    /\ ParkPoll
    /\ ParkDxl
    /\ ParkStart
    /\ ParkServo
    /\ ParkService
    /\ ParkLife
    /\ ParkMode
    /\ ParkCtl

SpecCli == InitCliAll /\ [][NextCli]_vars

\* C13: when the loop has looked for a command line (line 83) with a line
\* waiting, it has written and changed the mode as the handler prescribes:
\* M sends and sets the mode only for RANDOM, CONTROL and FOLLOW, SPEED
\* sends only a number in 0.5..10.0, any other argument writes nothing and
\* leaves the mode alone; and the loop continues unless the line was Q.
C13_CommandLoop ==
    (c_before # <<>> /\ c_before[1].cmd # <<>> /\ c_exc # "KeyboardInterrupt") =>
        LET b == c_before[1]
            h == HandleCommand(b.cmd[1], b.mode)
        IN  /\ c_mode = h.mode
            /\ \/ c_written = b.written \o h.written
               \/ h.quit /\ c_written = b.written \o <<"STOP">>
            /\ c_pc = "ended" <=> h.quit

(***************************************************************************)
(* dynamixel-cli.py --service: run_service_mode registers cleanup_and_exit *)
(* for SIGTERM and SIGINT, opens the port, initializes each servo and      *)
(* sleeps.  Python runs a signal handler in the main thread, on top of     *)
(* whatever frame the main thread is executing; that frame resumes only    *)
(* when the handler returns.  Every register helper takes dxl_lock, a      *)
(* threading.Lock, around its transaction.                                 *)
(***************************************************************************)
ServoIds == 1..NumServos

\* The register writes initializing one servo: set_operating_mode_dxl
\* (torque off, then the mode), set_torque_status(True), set_goal_velocity_dxl.
InitOps == <<"torque_off", "mode", "torque_on", "velocity">>

\* The register writes cleanup_and_exit makes for one servo.
CleanupOps == <<"velocity_0", "torque_off">>

InitService == v_pc = "open" /\ InitServiceState

\* The main thread runs only while no handler is on top of it.
MainRuns == v_exit = <<>> /\ h_pc = "off"

\* portHandler.openPort(): on failure run_service_mode returns.
OpenPort(ok) ==
    /\ MainRuns
    /\ v_pc = "open"
    /\ IF ok
       THEN v_port' = TRUE /\ v_pc' = "baud" /\ UNCHANGED v_exit
       ELSE v_pc' = "exit" /\ v_exit' = Some(0) /\ UNCHANGED v_port
    /\ UNCHANGED <<v_sid, v_op, v_in, v_lock, v_signal, h_pc, h_sid, h_op, h_in,
                   v_cleanup>>

\* portHandler.setBaudRate(): on failure the port is closed and it returns.
SetBaudRate(ok) ==
    /\ MainRuns
    /\ v_pc = "baud"
    /\ IF ok
       THEN v_pc' = "init" /\ UNCHANGED <<v_port, v_exit>>
       ELSE v_pc' = "exit" /\ v_port' = FALSE /\ v_exit' = Some(0)
    /\ UNCHANGED <<v_sid, v_op, v_in, v_lock, v_signal, h_pc, h_sid, h_op, h_in,
                   v_cleanup>>

\* A non-reentrant lock: acquire() succeeds only when nobody holds it,
\* the caller's own interrupted frame included.
LockFree(lock, who) == lock = "free"

\* The initialization enters the "with dxl_lock:" block of its next write.
InitAcquire ==
    /\ MainRuns
    /\ v_pc = "init"
    /\ v_sid <= NumServos
    /\ ~v_in
    /\ LockFree(v_lock, "main")
    /\ v_lock' = "main"
    /\ v_in' = TRUE
    /\ UNCHANGED <<v_pc, v_sid, v_op, v_port, v_signal, h_pc, h_sid, h_op, h_in,
                   v_cleanup, v_exit>>

\* The transaction returns and the block is left; a failed mode write or
\* torque enable skips the rest of this servo (continue).
InitWrite(ok) ==
    /\ MainRuns
    /\ v_pc = "init"
    /\ v_in
    /\ v_lock' = "free"
    /\ v_in' = FALSE
    /\ IF v_op = Len(InitOps) \/ (~ok /\ InitOps[v_op] \in {"mode", "torque_on"})
       THEN v_sid' = v_sid + 1 /\ v_op' = 1
       ELSE v_op' = v_op + 1 /\ UNCHANGED v_sid
    /\ UNCHANGED <<v_pc, v_port, v_signal, h_pc, h_sid, h_op, h_in, v_cleanup,
                   v_exit>>

\* All servos were gone through: while True: time.sleep(1).
InitDone ==
    /\ MainRuns
    /\ v_pc = "init"
    /\ v_sid > NumServos
    /\ v_pc' = "sleep"
    /\ UNCHANGED <<v_sid, v_op, v_in, v_lock, v_port, v_signal, h_pc, h_sid,
                   h_op, h_in, v_cleanup, v_exit>>

\* SIGTERM or SIGINT is delivered: cleanup_and_exit starts on top of the
\* main thread's current frame.  With the port closed it has no servo to
\* stop and nothing to close.
Signal ==
    /\ MainRuns
    /\ v_pc # "exit"
    /\ v_signal' = TRUE
    /\ h_pc' = IF v_port THEN "servos" ELSE "done"
    /\ UNCHANGED <<v_pc, v_sid, v_op, v_in, v_lock, v_port, h_sid, h_op, h_in,
                   v_cleanup, v_exit>>

\* The handler enters the "with dxl_lock:" block of its next write.
CleanupAcquire ==
    /\ v_exit = <<>>
    /\ h_pc = "servos"
    /\ h_sid <= NumServos
    /\ ~h_in
    /\ LockFree(v_lock, "handler")
    /\ v_lock' = "handler"
    /\ h_in' = TRUE
    /\ UNCHANGED <<v_pc, v_sid, v_op, v_in, v_port, v_signal, h_pc, h_sid, h_op,
                   v_cleanup, v_exit>>

\* The handler's transaction returns, whatever its result.
CleanupWrite ==
    /\ v_exit = <<>>
    /\ h_pc = "servos"
    /\ h_in
    /\ h_in' = FALSE
    /\ v_lock' = "free"
    /\ v_cleanup' = [v_cleanup EXCEPT ![h_sid] = Append(@, CleanupOps[h_op])]
    /\ IF h_op = Len(CleanupOps)
       THEN h_sid' = h_sid + 1 /\ h_op' = 1
       ELSE h_op' = h_op + 1 /\ UNCHANGED h_sid
    /\ UNCHANGED <<v_pc, v_sid, v_op, v_in, v_port, v_signal, h_pc, v_exit>>

\* portHandler.closePort() after the last servo.
CleanupClose ==
    /\ v_exit = <<>>
    /\ h_pc = "servos"
    /\ h_sid > NumServos
    /\ v_port' = FALSE
    /\ h_pc' = "done"
    /\ UNCHANGED <<v_pc, v_sid, v_op, v_in, v_lock, v_signal, h_sid, h_op, h_in,
                   v_cleanup, v_exit>>

\* sys.exit(0).
CleanupExit ==
    /\ v_exit = <<>>
    /\ h_pc = "done"
    /\ v_exit' = Some(0)
    /\ UNCHANGED <<v_pc, v_sid, v_op, v_in, v_lock, v_port, v_signal, h_pc,
                   h_sid, h_op, h_in, v_cleanup>>

NextService ==
    \/ UNCHANGED notService /\ \E ok \in BOOLEAN : OpenPort(ok)
    \/ UNCHANGED notService /\ \E ok \in BOOLEAN : SetBaudRate(ok)
    \/ UNCHANGED notService /\ InitAcquire
    \/ UNCHANGED notService /\ \E ok \in BOOLEAN : InitWrite(ok)
    \/ UNCHANGED notService /\ InitDone
    \/ UNCHANGED notService /\ Signal
    \/ UNCHANGED notService /\ CleanupAcquire
    \/ UNCHANGED notService /\ CleanupWrite
    \/ UNCHANGED notService /\ CleanupClose
    \/ UNCHANGED notService /\ CleanupExit

InitServiceAll ==
    /\ InitService
    /\ ParkUnwrap
    /\ ParkPoll
    /\ ParkDxl
    /\ ParkStart
    /\ ParkServo
    /\ ParkCli
    /\ ParkLife
    /\ ParkMode
    /\ ParkCtl

\* The interpreter keeps running the thread: a step that can be taken is
\* taken.
SpecService == InitServiceAll /\ [][NextService]_vars /\ WF_vars(NextService)

\* cleanup_and_exit has run to its end.
CleanedUp ==
    /\ v_exit = Some(0)
    /\ ~v_port
    /\ \A sid \in ServoIds : v_cleanup[sid] = CleanupOps

\* C14: after a SIGTERM or SIGINT delivered once the port is open, the
\* cleanup eventually completes: every servo was sent goal velocity 0 and
\* then torque disable, the port is closed and the exit status is 0.
C14_CleanupCompletes == (v_signal /\ v_port) ~> CleanedUp

(***************************************************************************)
(* u2d2-dynamixel.py: the GUI thread (checkbox, window close), the status  *)
(* thread and the random-movement threads.  Every register helper holds    *)
(* dxl_lock for its whole transaction (SpecDxl), so a helper call is one   *)
(* step here; portHandler.closePort() takes no lock.  The servos answer    *)
(* every transaction made on the open port.  dynamixel_sdk is not part of  *)
(* the repository: a transaction on a closed port either raises or         *)
(* returns a failure, and changes no register.                             *)
(***************************************************************************)
\* Checkbox clicks explored in a run.
MaxToggles == 3

Unborn == [pc |-> "unborn", sid |-> 1, op |-> 1]

Started == [pc |-> "while", sid |-> 1, op |-> 1]

\* threading.Thread.is_alive()
IsAlive(t) == l_rt[t].pc \notin {"unborn", "dead"}

\* __main__ after the GUI was built: app.random_thread = None, then the
\* thread is started when the configuration enables random movement.
InitLife ==
    /\ l_enable \in BOOLEAN
    /\ stop_event = FALSE
    /\ random_movement_enabled = l_enable
    /\ random_thread = IF l_enable THEN Some(1) ELSE <<>>
    /\ l_rt = [t \in RandomThreads |-> IF l_enable /\ t = 1 THEN Started ELSE Unborn]
    /\ l_started = IF l_enable THEN 1 ELSE 0
    /\ InitLifeState

\* What a transaction on the port can do: on the open port it succeeds.
Outcomes == IF l_port THEN {"ok"} ELSE {"raise", "fail"}

\* A register write by who: it reaches the servo only on the open port.
WriteReg(who, sid, field, val) ==
    IF l_port
    THEN l_reg' = [l_reg EXCEPT ![sid][field] = val] /\ UNCHANGED l_late
    ELSE l_late' = who /\ UNCHANGED l_reg

\* The thread's record of its last two writes to a servo.
Acted(t, sid, act) ==
    IF l_port
    THEN l_acts' = [l_acts EXCEPT ![t][sid] = LastN(Append(@, act), 2)]
    ELSE UNCHANGED l_acts

StartAlways(thread) == TRUE

\* Line 385: a thread is started unless the one referred to is alive.
ShouldStart(thread) == ~IsAlive(thread)

\* The lowest thread object that is not alive.
FreeThread == CHOOSE t \in RandomThreads :
                  /\ ~IsAlive(t)
                  /\ \A u \in RandomThreads : ~IsAlive(u) => t <= u

\* The user clicks the checkbox: Tk flips the variable and calls
\* toggle_random_movement.  With app.random_thread still None both
\* branches raise AttributeError at .is_alive(), which Tk reports.
ToggleRandomMovement ==
    /\ l_main = "gui"
    /\ l_toggles < MaxToggles
    /\ l_toggles' = l_toggles + 1
    /\ random_movement_enabled' = ~random_movement_enabled
    /\ IF random_thread = <<>>
       THEN UNCHANGED <<stop_event, random_thread, l_rt, l_acts, l_started>>
       ELSE IF ~random_movement_enabled
       THEN IF ShouldStart(random_thread[1]) /\ \E t \in RandomThreads : ~IsAlive(t)
            THEN /\ stop_event' = FALSE
                 /\ random_thread' = Some(FreeThread)
                 /\ l_rt' = [l_rt EXCEPT ![FreeThread] = Started]
                 /\ l_acts' = [l_acts EXCEPT ![FreeThread] =
                                  [sid \in 1..NumServos |-> <<>>]]
                 /\ l_started' = l_started + 1
            ELSE UNCHANGED <<stop_event, random_thread, l_rt, l_acts, l_started>>
       ELSE /\ stop_event' = (stop_event \/ IsAlive(random_thread[1]))
            /\ UNCHANGED <<random_thread, l_rt, l_acts, l_started>>
    /\ UNCHANGED <<l_enable, l_main, l_csid, l_cop, update_status_active, l_port,
                   l_st, l_reg, l_late>>

\* on_closing, first two statements.
ClosingBegins ==
    /\ l_main = "gui"
    /\ l_main' = "closing"
    /\ update_status_active' = FALSE
    /\ stop_event' = TRUE
    /\ UNCHANGED <<l_enable, l_csid, l_cop, random_movement_enabled,
                   random_thread, l_port, l_rt, l_st, l_reg, l_acts, l_late,
                   l_toggles, l_started>>

\* on_closing: set_goal_velocity(servo_id, 0), then set_torque(servo_id, False);
\* the port is still open, only on_closing closes it.
ClosingWrite ==
    /\ l_main = "closing"
    /\ l_csid <= NumServos
    /\ IF l_cop = 1
       THEN /\ l_reg' = [l_reg EXCEPT ![l_csid].vel = 0]
            /\ l_cop' = 2
            /\ UNCHANGED l_csid
       ELSE /\ l_reg' = [l_reg EXCEPT ![l_csid].torque = FALSE]
            /\ l_cop' = 1
            /\ l_csid' = l_csid + 1
    /\ UNCHANGED <<l_late, l_enable, l_main, stop_event, update_status_active,
                   random_movement_enabled, random_thread, l_port, l_rt, l_st,
                   l_acts, l_toggles, l_started>>

\* on_closing: portHandler.closePort().
ClosingClosesPort ==
    /\ l_main = "closing"
    /\ l_csid > NumServos
    /\ l_port' = FALSE
    /\ l_main' = "closed"
    /\ UNCHANGED <<l_enable, l_csid, l_cop, stop_event, update_status_active,
                   random_movement_enabled, random_thread, l_rt, l_st, l_reg,
                   l_acts, l_late, l_toggles, l_started>>

\* on_closing: root.destroy(); mainloop returns and the process ends,
\* taking its daemon threads with it.
ClosingDestroys ==
    /\ l_main = "closed"
    /\ l_main' = "gone"
    /\ UNCHANGED <<l_enable, l_csid, l_cop, stop_event, update_status_active,
                   random_movement_enabled, random_thread, l_port, l_rt, l_st,
                   l_reg, l_acts, l_late, l_toggles, l_started>>

\* What a step of a thread other than the GUI thread leaves alone.
guiVars == <<l_enable, l_main, l_csid, l_cop, stop_event, update_status_active,
             random_movement_enabled, random_thread, l_port, l_toggles, l_started>>

\* update_status_loop: the while test, then for each servo three reads
\* (velocity, temperature, load), then the sleep.  A read that raises
\* ends the thread.
StatusLoop ==
    /\ l_main # "gone"
    /\ l_st.pc = "while"
    /\ l_st' = IF update_status_active
               THEN [pc |-> "read", sid |-> 1, k |-> 1]
               ELSE [pc |-> "dead", sid |-> 1, k |-> 1]
    /\ UNCHANGED <<guiVars, l_rt, l_reg, l_acts, l_late>>

StatusRead(o) ==
    /\ l_main # "gone"
    /\ l_st.pc = "read"
    /\ l_late' = IF l_port THEN l_late ELSE "status"
    /\ l_st' = IF o = "raise" THEN [pc |-> "dead", sid |-> 1, k |-> 1]
               ELSE IF l_st.k < 3 THEN [l_st EXCEPT !.k = @ + 1]
               ELSE IF l_st.sid < NumServos
               THEN [pc |-> "read", sid |-> l_st.sid + 1, k |-> 1]
               ELSE [pc |-> "while", sid |-> 1, k |-> 1]
    /\ UNCHANGED <<guiVars, l_rt, l_reg, l_acts>>

Goto(t, pc, sid) == l_rt' = [l_rt EXCEPT ![t] = [pc |-> pc, sid |-> sid, op |-> 1]]

Runs(t, pc) == l_main # "gone" /\ l_rt[t].pc = pc

\* random_move_thread_func: while not stop_event.is_set().
RandomWhile(t) ==
    /\ Runs(t, "while")
    /\ IF stop_event THEN Goto(t, "cleanup", 1) ELSE Goto(t, "for", 1)
    /\ UNCHANGED <<guiVars, l_st, l_reg, l_acts, l_late>>

\* for servo_id in SERVO_IDS: if stop_event.is_set(): break
RandomFor(t) ==
    /\ Runs(t, "for")
    /\ IF l_rt[t].sid > NumServos \/ stop_event
       THEN Goto(t, "after_for", 1)
       ELSE Goto(t, "mode", l_rt[t].sid)
    /\ UNCHANGED <<guiVars, l_st, l_reg, l_acts, l_late>>

\* set_operating_mode(servo_id, MODE_VELOCITY_CONTROL): torque off, then
\* the mode.  On failure: wait, continue; on an exception: wait, then the
\* check after the try.
RandomSetMode(t, o) ==
    /\ Runs(t, "mode")
    /\ WriteReg("random", l_rt[t].sid, "torque", FALSE)
    /\ Acted(t, l_rt[t].sid, "torque_off")
    /\ IF o = "ok" THEN Goto(t, "torque", l_rt[t].sid)
       ELSE IF o = "fail" THEN Goto(t, "for", l_rt[t].sid + 1)
       ELSE Goto(t, "check", l_rt[t].sid)
    /\ UNCHANGED <<guiVars, l_st>>

\* set_torque(servo_id, True)
RandomSetTorque(t, o) ==
    /\ Runs(t, "torque")
    /\ WriteReg("random", l_rt[t].sid, "torque", TRUE)
    /\ Acted(t, l_rt[t].sid, "torque_on")
    /\ IF o = "ok" THEN Goto(t, "vel", l_rt[t].sid)
       ELSE IF o = "fail" THEN Goto(t, "for", l_rt[t].sid + 1)
       ELSE Goto(t, "check", l_rt[t].sid)
    /\ UNCHANGED <<guiVars, l_st>>

\* set_goal_velocity(servo_id, goal_velocity): a random velocity, 1 here.
RandomSetVelocity(t, o) ==
    /\ Runs(t, "vel")
    /\ WriteReg("random", l_rt[t].sid, "vel", 1)
    /\ Acted(t, l_rt[t].sid, "velocity")
    /\ Goto(t, "check", l_rt[t].sid)
    /\ UNCHANGED <<guiVars, l_st>>

\* if stop_event.is_set(): break, at the end of the loop body.
RandomCheck(t) ==
    /\ Runs(t, "check")
    /\ IF stop_event THEN Goto(t, "after_for", 1) ELSE Goto(t, "for", l_rt[t].sid + 1)
    /\ UNCHANGED <<guiVars, l_st, l_reg, l_acts, l_late>>

\* After the for loop: break when stopped, else stop_event.wait(duration),
\* which returns when the event is set or the time is over.
RandomAfterFor(t) ==
    /\ Runs(t, "after_for")
    /\ IF stop_event THEN Goto(t, "cleanup", 1) ELSE Goto(t, "while", 1)
    /\ UNCHANGED <<guiVars, l_st, l_reg, l_acts, l_late>>

\* Cleanup on thread exit, per servo inside try: set_goal_velocity(0),
\* set_torque(False); an exception skips to the next servo.
RandomCleanup(t, o) ==
    /\ Runs(t, "cleanup")
    /\ l_rt[t].sid <= NumServos
    /\ IF l_rt[t].op = 1
       THEN /\ WriteReg("random", l_rt[t].sid, "vel", 0)
            /\ Acted(t, l_rt[t].sid, "velocity_0")
       ELSE /\ WriteReg("random", l_rt[t].sid, "torque", FALSE)
            /\ Acted(t, l_rt[t].sid, "torque_off")
    /\ IF l_rt[t].op = 1 /\ o # "raise"
       THEN l_rt' = [l_rt EXCEPT ![t].op = 2]
       ELSE Goto(t, "cleanup", l_rt[t].sid + 1)
    /\ UNCHANGED <<guiVars, l_st>>

\* The thread function returns.
RandomFinished(t) ==
    /\ Runs(t, "cleanup")
    /\ l_rt[t].sid > NumServos
    /\ Goto(t, "dead", 1)
    /\ UNCHANGED <<guiVars, l_st, l_reg, l_acts, l_late>>

NextLife ==
    \/ UNCHANGED notLife /\ ToggleRandomMovement
    \/ UNCHANGED notLife /\ ClosingBegins
    \/ UNCHANGED notLife /\ ClosingWrite
    \/ UNCHANGED notLife /\ ClosingClosesPort
    \/ UNCHANGED notLife /\ ClosingDestroys
    \/ UNCHANGED notLife /\ StatusLoop
    \/ UNCHANGED notLife /\ \E o \in Outcomes : StatusRead(o)
    \/ UNCHANGED notLife /\ \E t \in RandomThreads : RandomWhile(t)
    \/ UNCHANGED notLife /\ \E t \in RandomThreads : RandomFor(t)
    \/ UNCHANGED notLife /\ \E t \in RandomThreads, o \in Outcomes : RandomSetMode(t, o)
    \/ UNCHANGED notLife /\ \E t \in RandomThreads, o \in Outcomes : RandomSetTorque(t, o)
    \/ UNCHANGED notLife /\ \E t \in RandomThreads, o \in Outcomes : RandomSetVelocity(t, o)
    \/ UNCHANGED notLife /\ \E t \in RandomThreads : RandomCheck(t)
    \/ UNCHANGED notLife /\ \E t \in RandomThreads : RandomAfterFor(t)
    \/ UNCHANGED notLife /\ \E t \in RandomThreads, o \in Outcomes : RandomCleanup(t, o)
    \/ UNCHANGED notLife /\ \E t \in RandomThreads : RandomFinished(t)

InitLifeAll ==
    /\ InitLife
    /\ ParkUnwrap
    /\ ParkPoll
    /\ ParkDxl
    /\ ParkStart
    /\ ParkServo
    /\ ParkCli
    /\ ParkService
    /\ ParkMode
    /\ ParkCtl

SpecLife == InitLifeAll /\ [][NextLife]_vars

\* C15: when on_closing has finished, every servo holds goal velocity 0
\* and torque disabled.
C15_FinalRegisters ==
    l_main = "gone" =>
        \A sid \in 1..NumServos : l_reg[sid] = [torque |-> FALSE, vel |-> 0]

\* C16: nobody reads or writes the Dynamixel port after on_closing closed
\* it.
C16_NoUseAfterClose == l_late = ""

\* C18: a random-movement thread that has terminated wrote, as its last
\* register writes to every servo, goal velocity 0 and then torque disable.
C18_ThreadCleansUp ==
    \A t \in RandomThreads :
        l_rt[t].pc = "dead" =>
            \A sid \in 1..NumServos : l_acts[t][sid] = <<"velocity_0", "torque_off">>

\* C19: a click that switches the checkbox on while no random-movement
\* thread is alive leaves a thread alive and stop_event cleared.
C19_SwitchOnStarts ==
    [][(/\ l_toggles' = l_toggles + 1
        /\ random_movement_enabled'
        /\ \A t \in RandomThreads : ~IsAlive(t))
       => (/\ ~stop_event'
           /\ \E t \in RandomThreads : l_rt'[t].pc = "while")]_vars

\* C20: at most one random-movement thread is alive.
C20_OneThreadAlive == Cardinality({t \in RandomThreads : IsAlive(t)}) <= 1

\* C20 witness: after the thread started at launch was switched off and
\* had finished, a click started a second one, which set a velocity.
C20_Witness ==
    /\ l_started = 2
    /\ l_toggles >= 2
    /\ \E t \in RandomThreads : l_rt[t].pc = "check" /\ l_reg[1].vel = 1

(***************************************************************************)
(* Operating-mode changes (SpecMode): the register writes the helpers of   *)
(* the Dynamixel scripts make to one servo, with their results.  A write   *)
(* that fails (no reply, packet error) leaves the register as it was.      *)
(***************************************************************************)
\* Helper calls explored in a run.
MaxModeCalls == 4

\* The helpers each thread calls; the status thread only reads.
ModeHelpersOf(p, t) ==
    IF p = "u2d2" /\ t = 2 THEN {"read_present"}
    ELSE {"set_operating_mode", "set_torque_on", "set_torque_off", "set_goal_velocity"}

\* The register the helper writes at a stage: set_operating_mode writes
\* Torque Enable = TORQUE_DISABLE first and Operating Mode second.
WriteOf(op, stage) ==
    IF op = "set_operating_mode" THEN (IF stage = 1 THEN "torque_off" ELSE "mode")
    ELSE IF op = "set_torque_on" THEN "torque_on"
    ELSE IF op = "set_torque_off" THEN "torque_off"
    ELSE IF op = "set_goal_velocity" THEN "velocity"
    ELSE "read"

\* The servo's torque after a write with result ok.
TorqueAfter(torque, reg, ok) ==
    IF ok /\ reg = "torque_off" THEN FALSE
    ELSE IF ok /\ reg = "torque_on" THEN TRUE
    ELSE torque

\* The servo may have been left with torque on by an earlier run.
InitMode == m_prog \in DxlProgs /\ m_torque \in BOOLEAN /\ InitModeState

ModeCall(t, op) ==
    /\ t \in ThreadsOf(m_prog)
    /\ op \in ModeHelpersOf(m_prog, t)
    /\ m_pc[t] = "idle"
    /\ m_calls < MaxModeCalls
    /\ m_calls' = m_calls + 1
    /\ m_op' = [m_op EXCEPT ![t] = op]
    /\ m_stage' = [m_stage EXCEPT ![t] = 1]
    /\ m_pc' = [m_pc EXCEPT ![t] = "want"]
    /\ UNCHANGED <<m_prog, m_lock, m_torque, m_prev, m_modew>>

\* "with dxl_lock:" is entered, where the script has a lock.
ModeAcquire(t) ==
    /\ m_pc[t] = "want"
    /\ IF UsesLock(m_prog, m_op[t])
       THEN CanAcquire(m_lock) /\ m_lock' = t
       ELSE UNCHANGED m_lock
    /\ m_pc' = [m_pc EXCEPT ![t] = "in"]
    /\ UNCHANGED <<m_prog, m_op, m_stage, m_torque, m_prev, m_modew, m_calls>>

\* The helper's next transaction, with its result.  After the torque
\* write of set_operating_mode the helper goes on to the mode write
\* whatever the result ("but proceeding"): inside the same "with" block,
\* or in dynamixel-cli.py in a block of its own.
ModeWrite(t, ok) ==
    /\ m_pc[t] = "in"
    /\ LET reg == WriteOf(m_op[t], m_stage[t])
           more == m_op[t] = "set_operating_mode" /\ m_stage[t] = 1
           keeps == more /\ TxCount(m_prog, m_op[t]) = 2
       IN  /\ m_torque' = TorqueAfter(m_torque, reg, ok)
           /\ m_prev' = IF reg = "read" THEN m_prev
                        ELSE Some([t |-> t, reg |-> reg, ok |-> ok, was |-> m_torque])
           /\ m_modew' = IF reg = "mode"
                         THEN Some([t |-> t, prev |-> m_prev, torque |-> m_torque])
                         ELSE m_modew
           /\ m_stage' = [m_stage EXCEPT ![t] = IF more THEN 2 ELSE 1]
           /\ m_pc' = [m_pc EXCEPT ![t] = IF keeps THEN "in"
                                          ELSE IF more THEN "want" ELSE "idle"]
           /\ m_op' = [m_op EXCEPT ![t] = IF more THEN @ ELSE ""]
           /\ m_lock' = IF keeps \/ ~UsesLock(m_prog, m_op[t]) THEN m_lock ELSE 0
    /\ UNCHANGED <<m_prog, m_calls>>

NextMode ==
    \/ UNCHANGED notMode /\ \E t \in DxlThreads :
                                \E op \in ModeHelpersOf(m_prog, t) : ModeCall(t, op)
    \/ UNCHANGED notMode /\ \E t \in DxlThreads : ModeAcquire(t)
    \/ UNCHANGED notMode /\ \E t \in DxlThreads, ok \in BOOLEAN : ModeWrite(t, ok)

InitModeAll ==
    /\ InitMode
    /\ ParkUnwrap
    /\ ParkPoll
    /\ ParkDxl
    /\ ParkStart
    /\ ParkServo
    /\ ParkCli
    /\ ParkService
    /\ ParkLife
    /\ ParkCtl

SpecMode == InitModeAll /\ [][NextMode]_vars

\* C17 (as amended): the register write to a servo that precedes an
\* operating-mode write is the torque-disable write of the same helper
\* call, no other thread's write falls between the two, and the torque is
\* disabled at the mode write whenever that torque-disable write succeeded;
\* when it failed the mode write is issued all the same.
C17_ModeAfterTorqueOff ==
    m_modew # <<>> =>
        /\ m_modew[1].prev # <<>>
        /\ m_modew[1].prev[1].t = m_modew[1].t
        /\ m_modew[1].prev[1].reg = "torque_off"
        /\ m_modew[1].prev[1].ok => ~m_modew[1].torque

\* C17 witness: the random-movement thread changed the mode of a servo
\* whose torque was on when set_operating_mode began, and had it off at
\* the mode write.
C17_Witness ==
    /\ m_prog = "u2d2"
    /\ m_modew # <<>>
    /\ m_modew[1].t = 3
    /\ m_modew[1].prev # <<>>
    /\ m_modew[1].prev[1].was
    /\ ~m_modew[1].torque

\* C17 as stated: an operating-mode write is only ever issued while the
\* servo's torque is disabled.
C17_ModeOnlyTorqueOff == m_modew # <<>> => ~m_modew[1].torque

(***************************************************************************)
(* dynamixel-cli.py (main_cli, and the initialization of run_service_mode) *)
(* and spin_mode.py from the servo initialization to the end of the        *)
(* process.  Every helper call returns; results matter where the code      *)
(* looks at them.  The signal handling of the service mode is SpecService. *)
(***************************************************************************)
CtlProgs == {"cli", "service", "spin"}

\* Commands typed at the prompt in a run.
MaxCmds == 2

\* spin_mode.py: set_operating_mode (torque off, mode), set_torque(True).
SpinInitOps == <<"torque_off", "mode", "torque_on">>

CtlInitOps(p) == IF p = "spin" THEN SpinInitOps ELSE InitOps

NeverSkips(reg, ok) == FALSE

\* dynamixel-cli.py: `continue` after a failed mode write or torque enable.
SkipsRest(reg, ok) == ~ok /\ reg \in {"mode", "torque_on"}

InitCtl == e_prog \in CtlProgs /\ e_pc = "init" /\ InitCtlState

\* A register write is issued to servo sid.
Issued(sid, reg) == e_last' = [e_last EXCEPT ![sid] = LastN(Append(@, reg), 2)]

\* The next write of the initialization loop, with its result.
\* spin_mode.py ignores the results.
CtlInitWrite(ok) ==
    /\ e_pc = "init"
    /\ e_sid <= NumServos
    /\ LET reg == CtlInitOps(e_prog)[e_op]
       IN  /\ e_initlog' = [e_initlog EXCEPT ![e_sid] = Append(@, [reg |-> reg, ok |-> ok])]
           /\ Issued(e_sid, reg)
           /\ IF \/ e_op = Len(CtlInitOps(e_prog))
                 \/ e_prog # "spin" /\ SkipsRest(reg, ok)
              THEN e_sid' = e_sid + 1 /\ e_op' = 1
              ELSE e_op' = e_op + 1 /\ UNCHANGED e_sid
    /\ UNCHANGED <<e_prog, e_pc, e_port, e_running, e_how, e_cmds>>

\* The initialization loop is over: the prompt, the sleep loop, or
\* spin_mode.py's loop over spin_velocities.
CtlInitDone ==
    /\ e_pc = "init"
    /\ e_sid > NumServos
    /\ e_pc' = IF e_prog = "cli" THEN "loop"
               ELSE IF e_prog = "service" THEN "sleep" ELSE "velocities"
    /\ e_sid' = 1
    /\ e_op' = 1
    /\ UNCHANGED <<e_prog, e_port, e_running, e_initlog, e_last, e_how, e_cmds>>

\* spin_mode.py: set_goal_velocity(sid, vel) for each servo, then the
\* `while running` loop.
SpinVelocity ==
    /\ e_pc = "velocities"
    /\ Issued(e_sid, "velocity")
    /\ IF e_sid = NumServos THEN e_pc' = "loop" /\ e_sid' = 1
       ELSE e_sid' = e_sid + 1 /\ UNCHANGED e_pc
    /\ UNCHANGED <<e_prog, e_op, e_port, e_running, e_initlog, e_how, e_cmds>>

\* "spin <rpm>": torque on and a velocity for every servo.
CmdSpin ==
    /\ e_prog = "cli"
    /\ e_pc = "loop"
    /\ e_cmds < MaxCmds
    /\ e_cmds' = e_cmds + 1
    /\ e_last' = [sid \in 1..NumServos |-> <<"torque_on", "velocity">>]
    /\ UNCHANGED <<e_prog, e_pc, e_sid, e_op, e_port, e_running, e_initlog, e_how>>

\* "stopall" is typed.
CmdStopAll ==
    /\ e_prog = "cli"
    /\ e_pc = "loop"
    /\ e_cmds < MaxCmds
    /\ e_cmds' = e_cmds + 1
    /\ e_pc' = "stopall"
    /\ e_sid' = 1
    /\ e_op' = 1
    /\ UNCHANGED <<e_prog, e_port, e_running, e_initlog, e_last, e_how>>

\* Where a loop over CleanupOps stands after one more write.
AfterWrite ==
    IF e_op = Len(CleanupOps)
    THEN e_sid' = e_sid + 1 /\ e_op' = 1
    ELSE e_op' = e_op + 1 /\ UNCHANGED e_sid

\* stopall: set_goal_velocity_dxl(sid, 0), set_torque_status(sid, False).
StopAllWrite ==
    /\ e_pc = "stopall"
    /\ e_sid <= NumServos
    /\ Issued(e_sid, CleanupOps[e_op])
    /\ AfterWrite
    /\ UNCHANGED <<e_prog, e_pc, e_port, e_running, e_initlog, e_how, e_cmds>>

StopAllDone ==
    /\ e_pc = "stopall"
    /\ e_sid > NumServos
    /\ e_pc' = "loop"
    /\ e_sid' = 1
    /\ UNCHANGED <<e_prog, e_op, e_port, e_running, e_initlog, e_last, e_how, e_cmds>>

\* The finally block is entered.
ToCleanup(how) ==
    /\ e_pc' = "cleanup"
    /\ e_sid' = 1
    /\ e_op' = 1
    /\ e_how' = how
    /\ UNCHANGED <<e_prog, e_port, e_running, e_initlog, e_last, e_cmds>>

\* "exit" is typed, or input() raises EOFError: break.
CmdExit(how) ==
    /\ e_prog = "cli"
    /\ e_pc = "loop"
    /\ ToCleanup(how)

\* Ctrl-C in main_cli: KeyboardInterrupt is raised where the thread is.
\* Inside the try it is caught and the finally block runs; the
\* initialization is before the try, and inside the finally block only
\* `except Exception` stands around the writes: there it ends the process.
CliCtrlC ==
    /\ e_prog = "cli"
    /\ e_pc \in {"init", "loop", "stopall", "cleanup"}
    /\ IF e_pc \in {"loop", "stopall"}
       THEN ToCleanup("ctrl_c")
       ELSE /\ e_how' = IF e_pc = "init" THEN "ctrl_c_init" ELSE "ctrl_c_cleanup"
            /\ e_pc' = "exited"
            /\ UNCHANGED <<e_prog, e_sid, e_op, e_port, e_running, e_initlog,
                           e_last, e_cmds>>

\* An exception other than KeyboardInterrupt inside the try block.
LoopRaises ==
    /\ \/ e_prog = "cli" /\ e_pc \in {"loop", "stopall"}
       \/ e_prog = "spin" /\ e_pc \in {"init", "velocities", "loop"}
    /\ ToCleanup("exception")

\* spin_mode.py: SIGINT or SIGTERM; shutdown_handler clears the flag.
SpinSignal ==
    /\ e_prog = "spin"
    /\ e_pc # "exited"
    /\ e_running
    /\ e_running' = FALSE
    /\ UNCHANGED <<e_prog, e_pc, e_sid, e_op, e_port, e_initlog, e_last, e_how,
                   e_cmds>>

\* spin_mode.py: `while running` ends.
SpinLoopEnds ==
    /\ e_prog = "spin"
    /\ e_pc = "loop"
    /\ ~e_running
    /\ ToCleanup("signal")

\* Service mode: a signal starts cleanup_and_exit.
ServiceSignal ==
    /\ e_prog = "service"
    /\ e_pc \in {"init", "sleep"}
    /\ e_pc' = "handler"
    /\ e_how' = "signal"
    /\ UNCHANGED <<e_prog, e_sid, e_op, e_port, e_running, e_initlog, e_last,
                   e_cmds>>

\* finally: goal velocity 0, then torque off, for each servo.
CtlCleanupWrite ==
    /\ e_pc = "cleanup"
    /\ e_sid <= NumServos
    /\ Issued(e_sid, CleanupOps[e_op])
    /\ AfterWrite
    /\ UNCHANGED <<e_prog, e_pc, e_port, e_running, e_initlog, e_how, e_cmds>>

\* finally: portHandler.closePort(), and the process ends.
CtlClosePort ==
    /\ e_pc = "cleanup"
    /\ e_sid > NumServos
    /\ e_port' = FALSE
    /\ e_pc' = "exited"
    /\ UNCHANGED <<e_prog, e_sid, e_op, e_running, e_initlog, e_last, e_how, e_cmds>>

NextCtl ==
    \/ UNCHANGED notCtl /\ \E ok \in BOOLEAN : CtlInitWrite(ok)
    \/ UNCHANGED notCtl /\ CtlInitDone
    \/ UNCHANGED notCtl /\ SpinVelocity
    \/ UNCHANGED notCtl /\ CmdSpin
    \/ UNCHANGED notCtl /\ CmdStopAll
    \/ UNCHANGED notCtl /\ StopAllWrite
    \/ UNCHANGED notCtl /\ StopAllDone
    \/ UNCHANGED notCtl /\ \E how \in {"exit", "eof"} : CmdExit(how)
    \/ UNCHANGED notCtl /\ CliCtrlC
    \/ UNCHANGED notCtl /\ LoopRaises
    \/ UNCHANGED notCtl /\ SpinSignal
    \/ UNCHANGED notCtl /\ SpinLoopEnds
    \/ UNCHANGED notCtl /\ ServiceSignal
    \/ UNCHANGED notCtl /\ CtlCleanupWrite
    \/ UNCHANGED notCtl /\ CtlClosePort

InitCtlAll ==
    /\ InitCtl
    /\ ParkUnwrap
    /\ ParkPoll
    /\ ParkDxl
    /\ ParkStart
    /\ ParkServo
    /\ ParkCli
    /\ ParkService
    /\ ParkLife
    /\ ParkMode

SpecCtl == InitCtlAll /\ [][NextCtl]_vars

\* C21: when the CLI controller or spin mode has ended, whatever made it
\* leave, every servo was last sent goal velocity 0 and then torque
\* disable, and the port was closed after that.
C21_ExitStopsServos ==
    (e_prog \in {"cli", "spin"} /\ e_pc = "exited") =>
        /\ ~e_port
        /\ \A sid \in 1..NumServos : e_last[sid] = CleanupOps

\* Some write before position i of the log was reg and succeeded.
OkBefore(log, i, reg) == \E j \in 1..(i - 1) : log[j].reg = reg /\ log[j].ok

\* C22: in the initialization of dynamixel-cli.py a torque enable is
\* written to a servo only after its mode write succeeded and a goal
\* velocity only after its torque enable succeeded, and every servo the
\* loop has passed had its mode write issued, whatever failed before it.
C22_InitOrder ==
    e_prog \in {"cli", "service"} =>
        \A sid \in 1..NumServos :
            /\ \A i \in 1..Len(e_initlog[sid]) :
                   /\ e_initlog[sid][i].reg = "torque_on" =>
                          OkBefore(e_initlog[sid], i, "mode")
                   /\ e_initlog[sid][i].reg = "velocity" =>
                          OkBefore(e_initlog[sid], i, "torque_on")
            /\ (e_pc \in {"loop", "sleep"} \/ (e_pc = "init" /\ e_sid > sid)) =>
                   \E i \in 1..Len(e_initlog[sid]) : e_initlog[sid][i].reg = "mode"

\* C22 witness: the mode write of the first servo failed and that servo
\* was skipped, and the last servo was initialized up to its velocity.
C22_Witness ==
    /\ e_prog = "cli"
    /\ e_pc = "loop"
    /\ Len(e_initlog[1]) = 2
    /\ ~e_initlog[1][2].ok
    /\ Len(e_initlog[NumServos]) = 4
    /\ e_initlog[NumServos][3].ok

====
